---- MODULE Spec2Model ----
(***************************************************************************)
(* A model of the JSON tokenizer of this repository: the two input         *)
(* readers (MemoryReader, BufferedReader) behind the ReadInput trait, the  *)
(* Lexer that pulls characters through that trait, and the IntoIter        *)
(* iterator over the lexer.                                                *)
(*                                                                         *)
(* Characters are Unicode code points (integers), bytes are 0..255, an     *)
(* Option<T> is a sequence of length at most one (<<>> is None, <<x>> is   *)
(* Some(x)), and a Result is a record with an `ok` flag.                   *)
(***************************************************************************)
EXTENDS Integers, Sequences, FiniteSets, TLC

VARIABLES
    source,      \* the bytes handed to the reader constructors (SOURCE in the tests)
    fail_at,     \* the read call of the byte source that fails with an I/O error (0: none)
    mode,        \* which driver runs: "readers", "eq" or "lexer"
    buf_reader,  \* Option<BufferedReader>: the reader of the "readers"/"eq" drivers
    mem_reader,  \* Option<MemoryReader>
    last,        \* the last reader call and what it returned
    failed,      \* TRUE once some reader call has returned Err
    eq_state,    \* the progress of Iterator::eq over the two input_reader() iterators
    lexer,       \* Option<Lexer<R>>
    iter,        \* Option<IntoIter<R>>
    items,       \* the items IntoIter::next has yielded so far, in order
    lex_last     \* the last lexer call and what it returned

vars == <<source, fail_at, mode, buf_reader, mem_reader, last, failed,
          eq_state, lexer, iter, items, lex_last>>

----------------------------------------------------------------------------
(* Option<T> *)

None == <<>>

Some(x) == <<x>>

IsSome(o) == o # <<>>

Unwrap(o) == o[1]

Min(a, b) == IF a < b THEN a ELSE b

----------------------------------------------------------------------------
(* UTF-8: char::len_utf8, the encoding of a char, and str::from_utf8.      *)

\* char::len_utf8
len_utf8(c) ==
    IF c < 128 THEN 1
    ELSE IF c < 2048 THEN 2
    ELSE IF c < 65536 THEN 3
    ELSE 4

\* the bytes of one char in a &str / in "...".as_bytes()
EncodeChar(c) ==
    CASE len_utf8(c) = 1 -> <<c>>
      [] len_utf8(c) = 2 -> <<192 + (c \div 64), 128 + (c % 64)>>
      [] len_utf8(c) = 3 -> <<224 + (c \div 4096), 128 + ((c \div 64) % 64), 128 + (c % 64)>>
      [] OTHER -> <<240 + (c \div 262144), 128 + ((c \div 4096) % 64),
                    128 + ((c \div 64) % 64), 128 + (c % 64)>>

RECURSIVE EncodeFrom(_, _)
EncodeFrom(s, i) ==
    IF i > Len(s) THEN <<>> ELSE EncodeChar(s[i]) \o EncodeFrom(s, i + 1)

\* str::as_bytes of the text whose chars are s
Encode(s) == EncodeFrom(s, 1)

IsCont(b) == b >= 128 /\ b <= 191

\* The width of the well-formed UTF-8 sequence starting at b[i] within b[i..hi],
\* or 0 when there is none (an invalid lead byte, a bad or missing continuation).
Utf8Width(b, i, hi) ==
    LET x == b[i] IN
    IF x < 128 THEN 1
    ELSE IF x >= 194 /\ x <= 223
        THEN IF i + 1 <= hi /\ IsCont(b[i + 1]) THEN 2 ELSE 0
    ELSE IF x >= 224 /\ x <= 239
        THEN IF /\ i + 2 <= hi
                /\ IsCont(b[i + 1]) /\ IsCont(b[i + 2])
                /\ (x = 224 => b[i + 1] >= 160)
                /\ (x = 237 => b[i + 1] <= 159)
             THEN 3 ELSE 0
    ELSE IF x >= 240 /\ x <= 244
        THEN IF /\ i + 3 <= hi
                /\ IsCont(b[i + 1]) /\ IsCont(b[i + 2]) /\ IsCont(b[i + 3])
                /\ (x = 240 => b[i + 1] >= 144)
                /\ (x = 244 => b[i + 1] <= 143)
             THEN 4 ELSE 0
    ELSE 0

\* the char encoded by the w bytes at b[i]
DecodeChar(b, i, w) ==
    CASE w = 1 -> b[i]
      [] w = 2 -> (b[i] - 192) * 64 + (b[i + 1] - 128)
      [] w = 3 -> (b[i] - 224) * 4096 + (b[i + 1] - 128) * 64 + (b[i + 2] - 128)
      [] OTHER -> (b[i] - 240) * 262144 + (b[i + 1] - 128) * 4096
                  + (b[i + 2] - 128) * 64 + (b[i + 3] - 128)

RECURSIVE Utf8Valid(_, _, _)
\* str::from_utf8(&b[i..hi]).is_ok()   (i is 1-based, hi inclusive)
Utf8Valid(b, i, hi) ==
    IF i > hi THEN TRUE
    ELSE LET w == Utf8Width(b, i, hi) IN
         IF w = 0 THEN FALSE ELSE Utf8Valid(b, i + w, hi)

RECURSIVE Utf8Chars(_, _, _, _)
\* the first n chars of the valid UTF-8 text b[i..hi]: str.chars().take(n)
Utf8Chars(b, i, hi, n) ==
    IF i > hi \/ n = 0 THEN <<>>
    ELSE LET w == Utf8Width(b, i, hi) IN
         <<DecodeChar(b, i, w)>> \o Utf8Chars(b, i + w, hi, n - 1)

----------------------------------------------------------------------------
(* input_reader::Error *)

IoError == [repr |-> "Io", count |-> 0]

Utf8Error == [repr |-> "Utf8", count |-> 0]

\* Error::overconsume_buffer
overconsume_buffer(count) == [repr |-> "Buffer", count |-> count]

Ok(v) == [ok |-> TRUE, val |-> v, err |-> IoError]

Err(e, v) == [ok |-> FALSE, val |-> v, err |-> e]

----------------------------------------------------------------------------
(* The byte source R: io::Read.  It is a byte slice, as in the tests, whose *)
(* read call number fail_in returns an I/O error (fail_in = 0: no call      *)
(* fails).                                                                  *)

NewSource(bytes, f) == [data |-> bytes, fail_in |-> f]

\* <R as io::Read>::read(&mut buf) with buf.len() = n: Ok gives the bytes read
\* and the source advanced past them; Err leaves the data where it is.
Read(inner, n) ==
    IF inner.fail_in = 1
    THEN [ok |-> FALSE, bytes |-> <<>>, inner |-> [inner EXCEPT !.fail_in = 0]]
    ELSE LET m == Min(n, Len(inner.data)) IN
         [ok |-> TRUE,
          bytes |-> SubSeq(inner.data, 1, m),
          inner |-> [data |-> SubSeq(inner.data, m + 1, Len(inner.data)),
                     fail_in |-> IF inner.fail_in = 0 THEN 0 ELSE inner.fail_in - 1]]

----------------------------------------------------------------------------
(* BufferedReader<R>: { inner, buf, pos, cap, chars }                       *)

BUF_READER_CAPACITY == 16

\* mem::size_of::<char>()
CHAR_SIZE == 4

\* [None; BUF_READER_CAPACITY]
NoChars == [i \in 1..BUF_READER_CAPACITY |-> None]

\* self.chars.iter_mut().for_each(|c| *c = chars.next()) over the chars of text
WindowOf(text) ==
    [i \in 1..BUF_READER_CAPACITY |-> IF i <= Len(text) THEN Some(text[i]) ELSE None]

\* inner.read(&mut self.buf) writes the bytes read over the front of buf
Overwrite(buf, bytes) ==
    [i \in 1..Len(buf) |-> IF i <= Len(bytes) THEN bytes[i] ELSE buf[i]]

\* a faulty fill_buf: it reads from the source whatever the byte cursor is
fill_buf_always_reads(r) ==
    LET rd == Read(r.inner, Len(r.buf))
        r1 == IF rd.ok
              THEN [r EXCEPT !.inner = rd.inner, !.buf = Overwrite(r.buf, rd.bytes),
                             !.cap = Len(rd.bytes), !.pos = 0]
              ELSE r
    IN  IF ~rd.ok
        THEN Err(IoError, [r EXCEPT !.inner = rd.inner])
        ELSE IF ~Utf8Valid(r1.buf, r1.pos + 1, r1.cap)
        THEN Err(Utf8Error, r1)
        ELSE Ok([r1 EXCEPT !.chars =
                    WindowOf(Utf8Chars(r1.buf, r1.pos + 1, r1.cap, BUF_READER_CAPACITY))])

\* a faulty fill_buf: after a read the byte cursor stays where it was
fill_buf_pos_kept(r) ==
    LET rd == Read(r.inner, Len(r.buf))
        refill == r.pos >= r.cap
        r1 == IF refill /\ rd.ok
              THEN [r EXCEPT !.inner = rd.inner, !.buf = Overwrite(r.buf, rd.bytes),
                             !.cap = Len(rd.bytes)]
              ELSE r
    IN  IF refill /\ ~rd.ok
        THEN Err(IoError, [r EXCEPT !.inner = rd.inner])
        ELSE IF r1.pos < r1.cap /\ ~Utf8Valid(r1.buf, r1.pos + 1, r1.cap)
        THEN Err(Utf8Error, r1)
        ELSE Ok([r1 EXCEPT !.chars =
                    IF r1.pos < r1.cap
                    THEN WindowOf(Utf8Chars(r1.buf, r1.pos + 1, r1.cap, BUF_READER_CAPACITY))
                    ELSE NoChars])

\* BufferedReader::fill_buf
fill_buf(r) ==
    LET rd == Read(r.inner, Len(r.buf))
        refill == r.pos >= r.cap
        r1 == IF refill /\ rd.ok
              THEN [r EXCEPT !.inner = rd.inner, !.buf = Overwrite(r.buf, rd.bytes),
                             !.cap = Len(rd.bytes), !.pos = 0]
              ELSE r
    IN  IF refill /\ ~rd.ok
        THEN Err(IoError, [r EXCEPT !.inner = rd.inner])
        ELSE IF ~Utf8Valid(r1.buf, r1.pos + 1, r1.cap)
        THEN Err(Utf8Error, r1)
        ELSE Ok([r1 EXCEPT !.chars =
                    WindowOf(Utf8Chars(r1.buf, r1.pos + 1, r1.cap, BUF_READER_CAPACITY))])

\* BufferedReader::with_capacity
with_capacity(cap, inner) ==
    fill_buf([inner |-> inner,
              buf |-> [i \in 1..(cap * CHAR_SIZE) |-> 0],
              pos |-> 0,
              cap |-> 0,
              chars |-> NoChars])

\* BufferedReader::new
BufferedReader_new(src) == with_capacity(BUF_READER_CAPACITY, src)

\* a faulty peek: the window is read one slot too far
BufferedReader_peek_one_off(r, k) ==
    IF k + 2 <= Len(r.chars) THEN r.chars[k + 2] ELSE None

\* <BufferedReader as ReadInput>::peek
BufferedReader_peek(r, k) ==
    IF k + 1 <= Len(r.chars) THEN r.chars[k + 1] ELSE None

RECURSIVE SumLenUtf8(_, _)
\* chars.iter().take(k).filter_map(|c| c.map(char::len_utf8)).sum()
SumLenUtf8(chars, k) ==
    IF k = 0 THEN 0
    ELSE SumLenUtf8(chars, k - 1)
         + (IF IsSome(chars[k]) THEN len_utf8(Unwrap(chars[k])) ELSE 0)

\* a faulty consume: a k that is the capacity is refused as well
BufferedReader_consume_below_capacity(r, k) ==
    IF k >= Len(r.chars)
    THEN Err(overconsume_buffer(k), r)
    ELSE fill_buf([r EXCEPT !.pos = Min(r.pos + SumLenUtf8(r.chars, k), r.cap)])

\* <BufferedReader as ReadInput>::consume
BufferedReader_consume(r, k) ==
    IF k > Len(r.chars)
    THEN Err(overconsume_buffer(k), r)
    ELSE fill_buf([r EXCEPT !.pos = Min(r.pos + SumLenUtf8(r.chars, k), r.cap)])

\* a faulty peek: it moves the byte cursor past the first char of the window
BufferedReader_peeked_and_moved(r, k) ==
    [r EXCEPT !.pos = Min(r.pos + SumLenUtf8(r.chars, 1), r.cap)]

\* <BufferedReader as ReadInput>::peek(&self, k): the reader after the call
BufferedReader_peeked(r, k) == r

----------------------------------------------------------------------------
(* MemoryReader: { buf, pos }                                               *)

\* source.read_to_end(&mut buffer): reads until a read returns 0 bytes; any read
\* that fails ends it with the error.  A slice hands over all it holds in one
\* read, so a source holding data is read twice and an empty one once.
read_to_end(inner) ==
    LET calls == IF Len(inner.data) = 0 THEN 1 ELSE 2 IN
    IF inner.fail_in # 0 /\ inner.fail_in <= calls
    THEN [ok |-> FALSE, bytes |-> <<>>]
    ELSE [ok |-> TRUE, bytes |-> inner.data]

\* MemoryReader::new
MemoryReader_new(src) ==
    LET rd == read_to_end(src) IN
    IF ~rd.ok THEN Err(IoError, None)
    ELSE IF ~Utf8Valid(rd.bytes, 1, Len(rd.bytes)) THEN Err(Utf8Error, None)
    ELSE Ok([buf |-> Utf8Chars(rd.bytes, 1, Len(rd.bytes), Len(rd.bytes)), pos |-> 0])

\* <MemoryReader as ReadInput>::peek
MemoryReader_peek(r, k) ==
    IF r.pos + k + 1 <= Len(r.buf) THEN Some(r.buf[r.pos + k + 1]) ELSE None

\* <MemoryReader as ReadInput>::peek(&self, k): the reader after the call
MemoryReader_peeked(r, k) == r

\* a faulty consume: the cursor is set to k instead of being moved by k
MemoryReader_consume_from_start(r, k) ==
    Ok([r EXCEPT !.pos = Min(k, Len(r.buf))])

\* usize::MAX, by its residue: adding it to a usize with wrap-around takes
\* one away, whatever the width of usize
usize_MAX == 0 - 1

\* self.pos + k is more than usize::MAX: the addition panics in a build with
\* overflow checks and wraps around in a build without them
AddOverflows(pos, k) == k = usize_MAX /\ pos > 0

\* usize::wrapping_add, for a k that is small or usize::MAX
WrappingAdd(pos, k) ==
    IF k # usize_MAX THEN pos + k ELSE IF pos = 0 THEN usize_MAX ELSE pos - 1

\* cmp::min of a usize that is small or usize::MAX and a small one
UsizeMin(a, b) == IF a = usize_MAX THEN b ELSE Min(a, b)

\* a faulty consume: the cursor is not held back at the end of the buffer
MemoryReader_consume_unclamped(r, k) ==
    Ok([r EXCEPT !.pos = IF k = usize_MAX THEN Len(r.buf) ELSE r.pos + k])

\* <MemoryReader as ReadInput>::consume, where the addition does not panic
MemoryReader_consume(r, k) ==
    Ok([r EXCEPT !.pos = UsizeMin(WrappingAdd(r.pos, k), Len(r.buf))])

----------------------------------------------------------------------------
(* The ReadInput trait over a reader R, which is one of the two structs     *)
(* above (told apart by their fields).                                      *)

IsBuffered(r) == "cap" \in DOMAIN r

\* ReadInput::peek
peek(r, k) == IF IsBuffered(r) THEN BufferedReader_peek(r, k) ELSE MemoryReader_peek(r, k)

\* ReadInput::consume
consume(r, k) ==
    IF IsBuffered(r) THEN BufferedReader_consume(r, k) ELSE MemoryReader_consume(r, k)

\* ReadInput::has_reached_eof
has_reached_eof(r) == peek(r, 0) = None

\* <InputReader as Iterator>::next: the char yielded and the reader afterwards
InputReader_next(r) ==
    LET c == peek(r, 0)
        res == consume(r, 1)
    IN  IF c = None THEN [item |-> None, reader |-> r]
        ELSE IF ~res.ok THEN [item |-> None, reader |-> res.val]
        ELSE [item |-> c, reader |-> res.val]

----------------------------------------------------------------------------
(* lexer::Error and the results of the lexer's methods.                     *)

\* the chars the lexer names, by code point
Ch == [tab |-> 9, lf |-> 10, cr |-> 13, us |-> 31, space |-> 32, quote |-> 34, plus |-> 43,
       comma |-> 44, minus |-> 45, dot |-> 46, slash |-> 47, zero |-> 48, one |-> 49,
       nine |-> 57, colon |-> 58, question |-> 63, upper_a |-> 65, upper_e |-> 69,
       upper_f |-> 70, open_bracket |-> 91, backslash |-> 92, close_bracket |-> 93,
       underscore |-> 95, a |-> 97, b |-> 98, e |-> 101, f |-> 102, l |-> 108,
       n |-> 110, r |-> 114, s |-> 115, t |-> 116, u |-> 117, open_brace |-> 123,
       close_brace |-> 125, del |-> 127, e_acute |-> 233]

KwNull == <<Ch.n, Ch.u, Ch.l, Ch.l>>

KwTrue == <<Ch.t, Ch.r, Ch.u, Ch.e>>

KwFalse == <<Ch.f, Ch.a, Ch.l, Ch.s, Ch.e>>

\* impl From<input_reader::Error> for Error
FromReaderError(e) == [repr |-> "InputReader", cause |-> Some(e), kind |-> "", arg |-> <<>>]

\* Error::from(Expected(kind)); arg is the keyword of Keyword(kw)
Expected(kind, arg) == [repr |-> "Expected", cause |-> None, kind |-> kind, arg |-> arg]

\* Error::from(Unexpected(c))
Unexpected(c) == [repr |-> "Unexpected", cause |-> None, kind |-> "", arg |-> <<c>>]

NoError == [repr |-> "", cause |-> None, kind |-> "", arg |-> <<>>]

\* What a method of the lexer ends with: Ok(val), Err(err), or a panic (st is
\* "ok", "err" or "panic"), and the reader as the method leaves it.
LexOk(val, rd) == [st |-> "ok", err |-> NoError, val |-> val, rd |-> rd]

LexErr(e, rd) == [st |-> "err", err |-> e, val |-> <<>>, rd |-> rd]

\* Result::unwrap on an Err, Option::unwrap on a None
Panic(rd) == [st |-> "panic", err |-> NoError, val |-> <<>>, rd |-> rd]

\* str::len of the text whose chars are s: its length in bytes
StrLen(s) == Len(Encode(s))

IsDigit(c) == c >= Ch.zero /\ c <= Ch.nine

\* char::is_ascii_control
is_ascii_control(c) == c < Ch.space \/ c = Ch.del

\* char::is_ascii_hexdigit
is_ascii_hexdigit(c) ==
    \/ IsDigit(c)
    \/ (c >= Ch.a /\ c <= Ch.f)
    \/ (c >= Ch.upper_a /\ c <= Ch.upper_f)

----------------------------------------------------------------------------
(* Lexer<R>: { input_reader, current_token, pos }                           *)

\* Lexer::advance_input_reader, given c = peek(0) and res = consume(1):
\* val is the Option<char>
AdvanceWith(c, res, rd) ==
    IF c = None THEN LexOk(None, rd)
    ELSE IF ~res.ok THEN LexErr(FromReaderError(res.err), res.val)
    ELSE LexOk(c, res.val)

\* Lexer::advance_input_reader
advance_input_reader(rd) == AdvanceWith(peek(rd, 0), consume(rd, 1), rd)

RECURSIVE PeekRange(_, _, _)
\* (from..to).filter_map(|k| self.input_reader.peek(k))
PeekRange(rd, from, to) ==
    IF from >= to THEN <<>> ELSE peek(rd, from) \o PeekRange(rd, from + 1, to)

\* a faulty match_keyword: the tail is consumed before it is compared
KeywordWith_consume_first(actual, res, rd, kw) ==
    IF ~res.ok THEN LexErr(FromReaderError(res.err), res.val)
    ELSE IF actual # Tail(kw) THEN LexErr(Expected("Keyword", kw), res.val)
    ELSE LexOk(kw, res.val)

\* Lexer::match_keyword, given actual and res = consume(kw.len() - 1)
KeywordWith(actual, res, rd, kw) ==
    IF actual # Tail(kw) THEN LexErr(Expected("Keyword", kw), rd)
    ELSE IF ~res.ok THEN LexErr(FromReaderError(res.err), res.val)
    ELSE LexOk(kw, res.val)

\* Lexer::match_keyword
match_keyword(rd, kw) ==
    KeywordWith(PeekRange(rd, 0, Len(kw) - 1), consume(rd, Len(kw) - 1), rd, kw)

RECURSIVE ConsumeDigitsLoop(_, _)
\* a faulty round: the underscore is pushed onto the digits
DigitsStep_underscore_kept(c, res, rd, digits) ==
    IF c # None /\ (IsDigit(Unwrap(c)) \/ c = Some(Ch.underscore))
    THEN IF ~res.ok THEN LexErr(FromReaderError(res.err), res.val)
         ELSE ConsumeDigitsLoop(res.val, digits \o c)
    ELSE LexOk(digits, rd)

\* one round of the loop of Lexer::consume_digits, given c = peek(0) and
\* res = consume(1)
DigitsStep(c, res, rd, digits) ==
    IF c = Some(Ch.underscore)
    THEN IF ~res.ok THEN LexErr(FromReaderError(res.err), res.val)
         ELSE ConsumeDigitsLoop(res.val, digits)
    ELSE IF c # None /\ IsDigit(Unwrap(c))
    THEN IF ~res.ok THEN LexErr(FromReaderError(res.err), res.val)
         ELSE ConsumeDigitsLoop(res.val, digits \o c)
    ELSE LexOk(digits, rd)

\* the loop of Lexer::consume_digits, with the digits pushed so far
ConsumeDigitsLoop(rd, digits) == DigitsStep(peek(rd, 0), consume(rd, 1), rd, digits)

\* Lexer::consume_digits
consume_digits(rd) == ConsumeDigitsLoop(rd, <<>>)

\* a faulty end of the exponent: an exponent without digits is accepted
ExponentEnd_empty_accepted(exponent, literal) ==
    IF exponent.st # "ok" THEN exponent
    ELSE LexOk(literal \o exponent.val, exponent.rd)

\* Lexer::match_number, lines 351-356: exponent is what consume_digits returned
ExponentEnd(exponent, literal) ==
    IF exponent.st # "ok" THEN exponent
    ELSE IF exponent.val = <<>> THEN LexErr(Expected("Dec", <<>>), exponent.rd)
    ELSE LexOk(literal \o exponent.val, exponent.rd)

\* Lexer::match_number, line 347: b is what advance_input_reader returned for the sign
ExponentSigned(b, literal) ==
    IF b.st # "ok" THEN Panic(b.rd) ELSE ExponentEnd(consume_digits(b.rd), literal)

\* a faulty exponent: its sign is consumed but not pushed onto the literal
ExponentSign_sign_dropped(a, literal) ==
    IF a.st # "ok" THEN Panic(a.rd)
    ELSE IF peek(a.rd, 0) = Some(Ch.minus) \/ peek(a.rd, 0) = Some(Ch.plus)
    THEN ExponentSigned(advance_input_reader(a.rd), literal)
    ELSE ExponentEnd(consume_digits(a.rd), literal)

\* Lexer::match_number, lines 343-349: a is what advance_input_reader returned
\* for the e or E
ExponentSign(a, literal) ==
    IF a.st # "ok" THEN Panic(a.rd)
    ELSE IF peek(a.rd, 0) = Some(Ch.minus) \/ peek(a.rd, 0) = Some(Ch.plus)
    THEN ExponentSigned(advance_input_reader(a.rd), literal \o peek(a.rd, 0))
    ELSE ExponentEnd(consume_digits(a.rd), literal)

\* Lexer::match_number, its last part: the optional exponent
NumberExponent(rd, literal) ==
    IF peek(rd, 0) # Some(Ch.e) /\ peek(rd, 0) # Some(Ch.upper_e) THEN LexOk(literal, rd)
    ELSE ExponentSign(advance_input_reader(rd), literal \o peek(rd, 0))

\* Lexer::match_number, lines 333-338: fractional is what consume_digits returned
FractionEnd(fractional, literal) ==
    IF fractional.st # "ok" THEN fractional
    ELSE IF fractional.val = <<>> THEN LexErr(Expected("Dec", <<>>), fractional.rd)
    ELSE NumberExponent(fractional.rd, literal \o fractional.val)

\* a faulty fraction: the dot is consumed but not pushed onto the literal
FractionDigits_without_dot(a, literal) ==
    IF a.st # "ok" THEN Panic(a.rd)
    ELSE FractionEnd(consume_digits(a.rd), literal)

\* Lexer::match_number, lines 330-331: a is what advance_input_reader returned
\* for the dot
FractionDigits(a, literal) ==
    IF a.st # "ok" THEN Panic(a.rd)
    ELSE FractionEnd(consume_digits(a.rd), literal \o <<Ch.dot>>)

\* Lexer::match_number, its middle part: the optional fraction, then the exponent
NumberFraction(rd, literal) ==
    IF peek(rd, 0) # Some(Ch.dot) THEN NumberExponent(rd, literal)
    ELSE FractionDigits(advance_input_reader(rd), literal)

\* Lexer::match_number, line 324: digits is what consume_digits returned
IntegerEnd(digits, literal) ==
    IF digits.st # "ok" THEN digits
    ELSE NumberFraction(digits.rd, literal \o digits.val)

\* a faulty integer part: the digits after a leading 0 are consumed as well
NumberInteger_zero_led(rd, literal, first_digit) ==
    IF first_digit >= Ch.zero /\ first_digit <= Ch.nine
    THEN IntegerEnd(consume_digits(rd), literal)
    ELSE LexErr(Expected("Dec", <<>>), rd)

\* Lexer::match_number, after the sign: the integer part, then the rest
NumberInteger(rd, literal, first_digit) ==
    IF first_digit >= Ch.one /\ first_digit <= Ch.nine
    THEN IntegerEnd(consume_digits(rd), literal)
    ELSE IF first_digit = Ch.zero THEN NumberFraction(rd, literal)
    ELSE LexErr(Expected("Dec", <<>>), rd)

\* Lexer::match_number, lines 313-318: a is what advance_input_reader returned
\* after the minus
NumberSign(a, first_digit) ==
    IF a.st # "ok" THEN a
    ELSE IF a.val = None THEN LexErr(Expected("Dec", <<>>), a.rd)
    ELSE NumberInteger(a.rd, <<first_digit>> \o a.val, Unwrap(a.val))

\* Lexer::match_number
match_number(rd, first_digit) ==
    IF first_digit = Ch.minus
    THEN NumberSign(advance_input_reader(rd), first_digit)
    ELSE NumberInteger(rd, <<first_digit>>, first_digit)

RECURSIVE AdvanceTimes(_, _, _)
\* codepoints.push(self.advance_input_reader()?.unwrap()): a is what
\* advance_input_reader returned
AdvanceStep(a, n, codepoints) ==
    IF a.st # "ok" THEN a
    ELSE IF a.val = None THEN Panic(a.rd)
    ELSE AdvanceTimes(a.rd, n - 1, codepoints \o a.val)

\* for _ in 0..n { codepoints.push(self.advance_input_reader()?.unwrap()) }
AdvanceTimes(rd, n, codepoints) ==
    IF n = 0 THEN LexOk(codepoints, rd)
    ELSE AdvanceStep(advance_input_reader(rd), n, codepoints)

\* s.filter(char::is_ascii_hexdigit).count()
CountHex(s) == Cardinality({i \in 1..Len(s) : is_ascii_hexdigit(s[i])})

\* Lexer::match_string, lines 381-382: over is what consume(valid_count + 1) returned
HexError(over) ==
    IF ~over.ok THEN LexErr(FromReaderError(over.err), over.val)
    ELSE LexErr(Expected("Hex", <<>>), over.val)

\* a faulty arm: it consumes a whole buffer more than the hex digits counted
UnicodeEscape_whole_buffer(rd, valid_count, codepoints) ==
    IF valid_count # 4 THEN HexError(consume(rd, valid_count + 1 + BUF_READER_CAPACITY))
    ELSE AdvanceTimes(rd, 4, codepoints \o <<Ch.u>>)

\* Lexer::match_string, the arm Some('u'), with valid_count counted
UnicodeEscape(rd, valid_count, codepoints) ==
    IF valid_count # 4 THEN HexError(consume(rd, valid_count + 1))
    ELSE AdvanceTimes(rd, 4, codepoints \o <<Ch.u>>)

\* a faulty match on the char after a backslash: the arm has no '/'
EscapeStep_without_slash(a, codepoints) ==
    IF a.st # "ok" THEN a
    ELSE IF a.val # None /\ Unwrap(a.val) \in {Ch.quote, Ch.backslash, Ch.b,
                                               Ch.f, Ch.n, Ch.r, Ch.t}
    THEN LexOk(codepoints \o a.val, a.rd)
    ELSE IF a.val = Some(Ch.u)
    THEN UnicodeEscape(a.rd, CountHex(PeekRange(a.rd, 0, 4)), codepoints)
    ELSE LexErr(Expected("EscapedChar", <<>>), a.rd)

\* The match on the char after a backslash in Lexer::match_string: a is what
\* advance_input_reader returned, codepoints holds the backslash already.  Ok
\* hands the codepoints to the loop.
EscapeStep(a, codepoints) ==
    IF a.st # "ok" THEN a
    ELSE IF a.val # None /\ Unwrap(a.val) \in {Ch.quote, Ch.backslash, Ch.slash, Ch.b,
                                               Ch.f, Ch.n, Ch.r, Ch.t}
    THEN LexOk(codepoints \o a.val, a.rd)
    ELSE IF a.val = Some(Ch.u)
    THEN UnicodeEscape(a.rd, CountHex(PeekRange(a.rd, 0, 4)), codepoints)
    ELSE LexErr(Expected("EscapedChar", <<>>), a.rd)

RECURSIVE StringLoop(_, _)
\* Lexer::match_string, after an escape: esc is what the match on it ended with
EscapeEnd(esc) == IF esc.st # "ok" THEN esc ELSE StringLoop(esc.rd, esc.val)

\* a faulty round: the end of the input ends the string like a quote does
StringStep_closed_by_eof(a, codepoints) ==
    IF a.st # "ok" THEN a
    ELSE IF a.val = None \/ a.val = Some(Ch.quote) THEN LexOk(codepoints, a.rd)
    ELSE IF is_ascii_control(Unwrap(a.val)) THEN LexErr(Unexpected(Unwrap(a.val)), a.rd)
    ELSE IF a.val = Some(Ch.backslash)
    THEN EscapeEnd(EscapeStep(advance_input_reader(a.rd), codepoints \o a.val))
    ELSE StringLoop(a.rd, codepoints \o a.val)

\* one round of the loop of Lexer::match_string: a is what advance_input_reader
\* returned
StringStep(a, codepoints) ==
    IF a.st # "ok" THEN a
    ELSE IF a.val = None THEN LexErr(Expected("StrTerminator", <<>>), a.rd)
    ELSE IF a.val = Some(Ch.quote) THEN LexOk(codepoints, a.rd)
    ELSE IF is_ascii_control(Unwrap(a.val)) THEN LexErr(Unexpected(Unwrap(a.val)), a.rd)
    ELSE IF a.val = Some(Ch.backslash)
    THEN EscapeEnd(EscapeStep(advance_input_reader(a.rd), codepoints \o a.val))
    ELSE StringLoop(a.rd, codepoints \o a.val)

\* the loop of Lexer::match_string, with the codepoints pushed so far
StringLoop(rd, codepoints) == StringStep(advance_input_reader(rd), codepoints)

\* Lexer::match_string
match_string(rd) == StringLoop(rd, <<>>)

\* Lexer::advance_column: the lexer's pos afterwards
advance_column(pos, by) == [pos EXCEPT !.column = @ + by, !.offset = @ + by]

\* Lexer::advance_line
advance_line(pos) == [line |-> pos.line + 1, column |-> 1, offset |-> pos.offset + 1]

\* Token::from((kind, raw, start, end))
Token(kind, raw, start, end) == [kind |-> kind, raw |-> raw, start |-> start, end |-> end]

\* a faulty table: the carriage return is not among the chars that are a token
SingleCharKind_without_cr(c) ==
    CASE c \in {Ch.space, Ch.tab, Ch.lf} -> "Whitespace"
      [] c = Ch.comma -> "Comma"
      [] c = Ch.open_brace -> "OpenBrace"
      [] c = Ch.close_brace -> "CloseBrace"
      [] c = Ch.open_bracket -> "OpenBracket"
      [] c = Ch.close_bracket -> "CloseBracket"
      [] c = Ch.colon -> "Colon"
      [] OTHER -> ""

\* the TokenKind of the chars that are a token by themselves
SingleCharKind(c) ==
    CASE c \in {Ch.space, Ch.tab, Ch.lf, Ch.cr} -> "Whitespace"
      [] c = Ch.comma -> "Comma"
      [] c = Ch.open_brace -> "OpenBrace"
      [] c = Ch.close_brace -> "CloseBrace"
      [] c = Ch.open_bracket -> "OpenBracket"
      [] c = Ch.close_bracket -> "CloseBracket"
      [] c = Ch.colon -> "Colon"
      [] OTHER -> ""

\* An arm of the match in Lexer::consume that calls a matcher: what the matcher
\* returned, the kind of the token, and the argument of advance_column, which
\* is `fixed` or, with raw_len, raw.len() + fixed.
Arm(m, kind, raw_len, fixed) == [m |-> m, kind |-> kind, raw_len |-> raw_len, fixed |-> fixed]

\* the arms of the match in Lexer::consume that call a matcher, for the first char c
MatchArm(rd, c) ==
    CASE c = Ch.n -> Arm(match_keyword(rd, KwNull), "Null", FALSE, 4)
      [] c = Ch.t -> Arm(match_keyword(rd, KwTrue), "Bool", FALSE, 4)
      [] c = Ch.f -> Arm(match_keyword(rd, KwFalse), "Bool", FALSE, 5)
      [] IsDigit(c) \/ c = Ch.minus -> Arm(match_number(rd, c), "Num", TRUE, 0)
      [] c = Ch.quote -> Arm(match_string(rd), "Str", TRUE, 2)
      [] OTHER -> Arm(LexErr(Unexpected(c), rd), "", FALSE, 0)

\* What Lexer::consume ends with (st, err) and the lexer as it leaves it.
LexerResult(st, err, lx) == [st |-> st, err |-> err, lexer |-> lx]

\* a faulty token step: the position of the lexer stays at the token's start
WithToken_pos_kept(lx, rd, kind, raw, end) ==
    [input_reader |-> rd,
     current_token |-> Some(Token(kind, raw, lx.pos, end)),
     pos |-> lx.pos]

\* the lexer with the token of a one-char arm, which ends at `end`
WithToken(lx, rd, kind, raw, end) ==
    [input_reader |-> rd,
     current_token |-> Some(Token(kind, raw, lx.pos, end)),
     pos |-> end]

\* a faulty arm: when the matcher fails the lexer keeps the token it held
ConsumeArm_token_kept(lx, arm) ==
    IF arm.m.st # "ok"
    THEN LexerResult(arm.m.st, arm.m.err, [lx EXCEPT !.input_reader = arm.m.rd])
    ELSE LexerResult("ok", NoError,
             WithToken(lx, arm.m.rd, arm.kind, arm.m.val,
                       advance_column(lx.pos, IF arm.raw_len THEN StrLen(arm.m.val) + arm.fixed
                                                ELSE arm.fixed)))

\* Lexer::consume, a matcher arm: the `?` on what the matcher returned, then the token
ConsumeArm(lx, arm) ==
    IF arm.m.st # "ok"
    THEN LexerResult(arm.m.st, arm.m.err,
                     [lx EXCEPT !.current_token = None, !.input_reader = arm.m.rd])
    ELSE LexerResult("ok", NoError,
             WithToken(lx, arm.m.rd, arm.kind, arm.m.val,
                       advance_column(lx.pos, IF arm.raw_len THEN StrLen(arm.m.val) + arm.fixed
                                                ELSE arm.fixed)))

\* a faulty consume: the end of the input is an error
ConsumeWith_eof_fails(lx, a) ==
    IF a.st # "ok" \/ a.val = None
    THEN LexerResult("err", IF a.st # "ok" THEN a.err ELSE Unexpected(0),
                     [lx EXCEPT !.current_token = None, !.input_reader = a.rd])
    ELSE IF SingleCharKind(Unwrap(a.val)) # ""
    THEN LexerResult("ok", NoError,
             WithToken(lx, a.rd, SingleCharKind(Unwrap(a.val)), a.val,
                       IF a.val = Some(Ch.lf) THEN advance_line(lx.pos)
                       ELSE advance_column(lx.pos, 1)))
    ELSE ConsumeArm(lx, MatchArm(a.rd, Unwrap(a.val)))

\* Lexer::consume, after self.advance_input_reader() returned a
ConsumeWith(lx, a) ==
    IF a.st # "ok"
    THEN LexerResult("err", a.err, [lx EXCEPT !.current_token = None, !.input_reader = a.rd])
    ELSE IF a.val = None
    THEN LexerResult("ok", NoError, [lx EXCEPT !.current_token = None, !.input_reader = a.rd])
    ELSE IF SingleCharKind(Unwrap(a.val)) # ""
    THEN LexerResult("ok", NoError,
             WithToken(lx, a.rd, SingleCharKind(Unwrap(a.val)), a.val,
                       IF a.val = Some(Ch.lf) THEN advance_line(lx.pos)
                       ELSE advance_column(lx.pos, 1)))
    ELSE ConsumeArm(lx, MatchArm(a.rd, Unwrap(a.val)))

\* Lexer::consume (the spec's advance)
Lexer_consume(lx) == ConsumeWith(lx, advance_input_reader(lx.input_reader))

\* Lexer::new
Lexer_new(input_reader) ==
    Lexer_consume([input_reader |-> input_reader,
                   current_token |-> None,
                   pos |-> [line |-> 1, column |-> 1, offset |-> 0]])

\* Lexer::peek
Lexer_peek(lx) == lx.current_token

\* Lexer::into_iter
into_iter(lx) == [lexer |-> lx, last_err |-> None]

\* the items of IntoIter: Some(Ok(token)) and Some(Err(err))
OkItem(token) == [ok |-> TRUE, token |-> Some(token), err |-> NoError]

ErrItem(err) == [ok |-> FALSE, token |-> None, err |-> err]

\* What next() ends with: st is "panic" when the advance it made panicked and
\* "ok" otherwise, item the Option<Item> returned, iter the iterator afterwards.
NextResult(st, item, it) == [st |-> st, item |-> item, iter |-> it]

\* a faulty next: the error of the advance is not kept for the next call
NextAdvanced_err_dropped(item, adv) ==
    NextResult(IF adv.st = "panic" THEN "panic" ELSE "ok", item,
               [lexer |-> adv.lexer, last_err |-> None])

\* <IntoIter as Iterator>::next, having made its advance: adv is what
\* self.lexer.consume() returned, and self.last_err = adv.err()
NextAdvanced(item, adv) ==
    NextResult(IF adv.st = "panic" THEN "panic" ELSE "ok", item,
               [lexer |-> adv.lexer,
                last_err |-> IF adv.st = "err" THEN Some(adv.err) ELSE None])

\* <IntoIter as Iterator>::next
IntoIter_next(it) ==
    IF it.last_err # None
    THEN NextAdvanced(Some(ErrItem(Unwrap(it.last_err))), Lexer_consume(it.lexer))
    ELSE IF it.lexer.current_token = None
    THEN NextResult("ok", None, it)
    ELSE NextAdvanced(Some(OkItem(Unwrap(it.lexer.current_token))), Lexer_consume(it.lexer))

----------------------------------------------------------------------------
(* The inputs of the reader drivers.  A text is a run of 4-byte chars, a    *)
(* run of chars of 1, 2 or 3 bytes, and a second run of 4-byte chars; the   *)
(* char at index n of a text is the n-th char of its width, so that no two  *)
(* chars of a text are equal and a wrong index shows.                       *)

MaxMid == 2

MaxTail == 17

MaxFailAt == 2

\* the n-th char that takes w bytes
CharOfWidth(w, n) ==
    CASE w = 1 -> 48 + n
      [] w = 2 -> 256 + n
      [] w = 3 -> 4096 + n
      [] OTHER -> 65536 + n

Text(i, w, j, k) ==
    [n \in 1..(i + j + k) |->
        IF n > i /\ n <= i + j THEN CharOfWidth(w, n) ELSE CharOfWidth(CHAR_SIZE, n)]

\* no lead run, or one that fills the byte buffer exactly
LeadRuns == {0, BUF_READER_CAPACITY}

ReaderInputs ==
    {Text(i, w, j, k) : i \in LeadRuns, w \in 1..3, j \in 0..MaxMid, k \in 0..MaxTail}

\* the k of the consume(k) calls the drivers make
ConsumeKs == {0, 1, 2, 3, BUF_READER_CAPACITY, BUF_READER_CAPACITY + 1}

----------------------------------------------------------------------------
(* What the claims read off a state.                                        *)

\* the chars of the (valid UTF-8) source
InputChars == Utf8Chars(source, 1, Len(source), Len(source))

RECURSIVE CharsWithin(_, _, _)
\* how many chars of text, from index n + 1 on, end within the next nbytes bytes
CharsWithin(text, n, nbytes) ==
    IF n >= Len(text) \/ len_utf8(text[n + 1]) > nbytes THEN 0
    ELSE 1 + CharsWithin(text, n + 1, nbytes - len_utf8(text[n + 1]))

\* the offset in the source of the byte cursor of BufferedReader r
BufByteOffset(r) == Len(source) - Len(r.inner.data) - r.cap + r.pos

\* the number of chars of the input the reader r has been advanced past
Consumed(r) ==
    IF IsBuffered(r) THEN CharsWithin(InputChars, 0, BufByteOffset(r)) ELSE r.pos

\* the char at index n (0-based) of the input, if it has one
InputAt(n) == IF n < Len(InputChars) THEN Some(InputChars[n + 1]) ELSE None

----------------------------------------------------------------------------
(* The reader driver: one reader is built over the source and consumed.     *)

\* a call, what it returned, and whether it was made at end of input
NoCall == [op |-> "init", ok |-> TRUE, err |-> IoError, at_eof |-> FALSE]

Call(op, res, at_eof) == [op |-> op, ok |-> res.ok, err |-> res.err, at_eof |-> at_eof]

\* a call of the lexer driver: how it ended ("ok", "err", "panic", or "none" for
\* a next() that returned None), the error of an "err", and whether a read of
\* the byte source failed while it ran
NoLexCall == [op |-> "init", st |-> "ok", err |-> NoError, rd_err |-> FALSE]

LexCall(op, st, err, rd_err) == [op |-> op, st |-> st, err |-> err, rd_err |-> rd_err]

IdleLexer ==
    /\ lexer = None
    /\ iter = None
    /\ items = <<>>
    /\ lex_last = NoLexCall

IdleReaders ==
    /\ buf_reader = None
    /\ mem_reader = None
    /\ last = NoCall
    /\ failed = FALSE
    /\ eq_state = [phase |-> "init", result |-> FALSE, left |-> <<>>, right |-> <<>>]

\* the drivers that build one reader and call its methods
ReaderMode == mode \in {"readers", "peek", "mem"}

InitReaders ==
    /\ mode = "readers"
    /\ source \in {Encode(t) : t \in ReaderInputs}
    /\ fail_at \in 0..MaxFailAt
    /\ IdleReaders
    /\ IdleLexer

\* BufferedReader::new(SOURCE)
BufNew ==
    /\ ReaderMode /\ last.op = "init"
    /\ LET res == BufferedReader_new(NewSource(source, fail_at)) IN
       /\ buf_reader' = IF res.ok THEN Some(res.val) ELSE None
       /\ last' = Call("new", res, FALSE)
       /\ failed' = ~res.ok
    /\ UNCHANGED <<source, fail_at, mode, mem_reader, eq_state, lexer, iter, items, lex_last>>

\* MemoryReader::new(SOURCE)
MemNew ==
    /\ ReaderMode /\ last.op = "init"
    /\ LET res == MemoryReader_new(NewSource(source, fail_at)) IN
       /\ mem_reader' = IF res.ok THEN Some(res.val) ELSE None
       /\ last' = Call("new", res, FALSE)
       /\ failed' = ~res.ok
    /\ UNCHANGED <<source, fail_at, mode, buf_reader, eq_state, lexer, iter, items, lex_last>>

\* buf_reader.consume(k)
BufConsume(k) ==
    /\ ReaderMode /\ buf_reader # None
    /\ LET res == BufferedReader_consume(Unwrap(buf_reader), k) IN
       /\ buf_reader' = Some(res.val)
       /\ last' = Call("consume", res, has_reached_eof(Unwrap(buf_reader)))
       /\ failed' = (failed \/ ~res.ok)
    /\ UNCHANGED <<source, fail_at, mode, mem_reader, eq_state, lexer, iter, items, lex_last>>

\* mem_reader.consume(k)
MemConsume(k) ==
    /\ ReaderMode /\ mem_reader # None
    /\ LET res == MemoryReader_consume(Unwrap(mem_reader), k) IN
       /\ mem_reader' = Some(res.val)
       /\ last' = Call("consume", res, has_reached_eof(Unwrap(mem_reader)))
       /\ failed' = (failed \/ ~res.ok)
    /\ UNCHANGED <<source, fail_at, mode, buf_reader, eq_state, lexer, iter, items, lex_last>>

NextReaders ==
    \/ BufNew
    \/ MemNew
    \/ \E k \in ConsumeKs : BufConsume(k)
    \/ \E k \in ConsumeKs : MemConsume(k)

SpecReaders == InitReaders /\ [][NextReaders]_vars

----------------------------------------------------------------------------
(* The peek driver: the reader driver over a source that never fails, with  *)
(* peek(k) calls between the consume(k) calls, as in test_peek.             *)

\* the inputs of the peek driver: those of the reader driver with no tail, a
\* tail of one char, or the longest tail
PeekInputs ==
    {Text(i, w, j, k) : i \in LeadRuns, w \in 1..3, j \in 0..MaxMid, k \in {0, 1, MaxTail}}

\* the k of the peek(k) calls the driver makes
PeekAts == {0, 1, BUF_READER_CAPACITY - 1, BUF_READER_CAPACITY}

\* a peek(k) call and the char it returned
PeekCall(k, c) ==
    [op |-> "peek", ok |-> TRUE, err |-> IoError, at_eof |-> FALSE, k |-> k, val |-> c]

InitPeek ==
    /\ mode = "peek"
    /\ source \in {Encode(t) : t \in PeekInputs}
    /\ fail_at = 0
    /\ IdleReaders
    /\ IdleLexer

\* buf_reader.peek(k)
BufPeek(k) ==
    /\ mode = "peek" /\ buf_reader # None
    /\ buf_reader' = Some(BufferedReader_peeked(Unwrap(buf_reader), k))
    /\ last' = PeekCall(k, BufferedReader_peek(Unwrap(buf_reader), k))
    /\ UNCHANGED <<source, fail_at, mode, mem_reader, failed, eq_state, lexer, iter, items,
                   lex_last>>

\* mem_reader.peek(k)
MemPeek(k) ==
    /\ mode = "peek" /\ mem_reader # None
    /\ mem_reader' = Some(MemoryReader_peeked(Unwrap(mem_reader), k))
    /\ last' = PeekCall(k, MemoryReader_peek(Unwrap(mem_reader), k))
    /\ UNCHANGED <<source, fail_at, mode, buf_reader, failed, eq_state, lexer, iter, items,
                   lex_last>>

NextPeek ==
    \/ NextReaders
    \/ \E k \in PeekAts : BufPeek(k)
    \/ \E k \in PeekAts : MemPeek(k)

SpecPeek == InitPeek /\ [][NextPeek]_vars

----------------------------------------------------------------------------
(* The consume driver of MemoryReader: test_consume with any k, usize::MAX  *)
(* among them, in a build with overflow checks or without.                  *)

\* the k of the consume(k) calls of this driver
MemConsumeKs == ConsumeKs \cup {usize_MAX}

InitMem ==
    /\ mode = "mem"
    /\ source \in {Encode(t) : t \in PeekInputs}
    /\ fail_at = 0
    /\ IdleReaders
    /\ IdleLexer

\* mem_reader.consume(k) in a build with overflow checks (checked) or without
MemConsumeBuilt(k, checked) ==
    /\ mode = "mem" /\ mem_reader # None
    /\ IF checked /\ AddOverflows(Unwrap(mem_reader).pos, k)
       THEN /\ mem_reader' = None
            /\ last' = [NoCall EXCEPT !.op = "panic", !.ok = FALSE]
            /\ failed' = TRUE
       ELSE /\ mem_reader' = Some(MemoryReader_consume(Unwrap(mem_reader), k).val)
            /\ last' = Call("consume", MemoryReader_consume(Unwrap(mem_reader), k),
                            has_reached_eof(Unwrap(mem_reader)))
            /\ failed' = (failed \/ ~MemoryReader_consume(Unwrap(mem_reader), k).ok)
    /\ UNCHANGED <<source, fail_at, mode, buf_reader, eq_state, lexer, iter, items, lex_last>>

NextMem ==
    \/ MemNew
    \/ \E k \in MemConsumeKs, checked \in BOOLEAN : MemConsumeBuilt(k, checked)

SpecMem == InitMem /\ [][NextMem]_vars

----------------------------------------------------------------------------
(* The equality driver: the body of test_readers_are_eq and of              *)
(* test_empty_readers_are_eq.  Both readers are built over the same source  *)
(* (a slice, which never fails) and Iterator::eq pulls from their           *)
(* input_reader() iterators in turn, one round of its loop per step.        *)

InitEq ==
    /\ mode = "eq"
    /\ source \in {Encode(t) : t \in ReaderInputs}
    /\ fail_at = 0
    /\ IdleReaders
    /\ IdleLexer

\* let mut buf_reader = BufferedReader::new(S)?; let mut mem_reader = MemoryReader::new(S)?;
EqNew ==
    /\ mode = "eq" /\ eq_state.phase = "init"
    /\ LET b == BufferedReader_new(NewSource(source, fail_at))
           m == MemoryReader_new(NewSource(source, fail_at))
       IN  /\ buf_reader' = IF b.ok /\ m.ok THEN Some(b.val) ELSE None
           /\ mem_reader' = IF b.ok /\ m.ok THEN Some(m.val) ELSE None
           /\ last' = Call("new", IF b.ok THEN m ELSE b, FALSE)
           /\ failed' = ~(b.ok /\ m.ok)
           /\ eq_state' = [eq_state EXCEPT !.phase = IF b.ok /\ m.ok THEN "running" ELSE "new_failed"]
    /\ UNCHANGED <<source, fail_at, mode, lexer, iter, items, lex_last>>

\* one round of the loop of buf_reader.input_reader().eq(mem_reader.input_reader())
EqStep ==
    /\ mode = "eq" /\ eq_state.phase = "running"
    /\ LET x == InputReader_next(Unwrap(buf_reader))
           y == InputReader_next(Unwrap(mem_reader))
           go_on == x.item # None /\ y.item # None /\ x.item = y.item
       IN  /\ buf_reader' = Some(x.reader)
           /\ mem_reader' = Some(y.reader)
           /\ eq_state' = [phase |-> IF go_on THEN "running" ELSE "done",
                           result |-> x.item = None /\ y.item = None,
                           left |-> eq_state.left \o x.item,
                           right |-> eq_state.right \o y.item]
    /\ UNCHANGED <<source, fail_at, mode, last, failed, lexer, iter, items, lex_last>>

NextEq == EqNew \/ EqStep

SpecEq == InitEq /\ [][NextEq]_vars

----------------------------------------------------------------------------
(* Claims about the readers.                                                *)

\* the reader the reader driver has built, if any
TheReader == IF buf_reader # None THEN buf_reader ELSE mem_reader

\* no call has failed and the source never fails: the run of a valid input
CleanRun == ~failed /\ fail_at = 0

\* the largest k a claim peeks at: the window of a BufferedReader holds
\* BUF_READER_CAPACITY chars, a MemoryReader is peeked one past that
PeekKs(r) == IF IsBuffered(r) THEN 0..(BUF_READER_CAPACITY - 1) ELSE 0..BUF_READER_CAPACITY

\* C1: over a valid UTF-8 source, Iterator::eq of the BufferedReader's and the
\* MemoryReader's input_reader() ends with true: both yield the same chars, all
\* the chars of the input and nothing else.
C1_ReadersAreEq ==
    (mode = "eq" /\ eq_state.phase = "done") =>
        /\ eq_state.result
        /\ eq_state.left = eq_state.right
        /\ eq_state.right = InputChars

\* C2: while no call has failed, peek(k) of either reader is the char at index
\* n + k of the input, n being the number of chars consumed, and none exactly
\* when the input has no such char.
C2_PeekIsInputAt ==
    (mode = "readers" /\ TheReader # None /\ CleanRun) =>
        \A k \in PeekKs(Unwrap(TheReader)) :
            peek(Unwrap(TheReader), k) = InputAt(Consumed(Unwrap(TheReader)) + k)

\* C3: a successful consume(k), k <= 16, made in a run without failures with n
\* chars consumed leaves min(n + k, N) chars consumed.
C3_ConsumeAdvancesByK ==
    [][\A k \in ConsumeKs :
          ((BufConsume(k) \/ MemConsume(k)) /\ k <= BUF_READER_CAPACITY /\ CleanRun /\ last'.ok)
          => Consumed(Unwrap(TheReader')) =
                Min(Consumed(Unwrap(TheReader)) + k, Len(InputChars))]_vars

C9_NoEncodingError ==
    (mode = "readers" /\ fail_at = 0 /\ mem_reader = None /\ last.op # "init") =>
        (last.ok \/ last.err.repr # "Utf8")

----------------------------------------------------------------------------
(* The lexer driver: try_main of src/bin/cli.rs over either reader.  A      *)
(* reader is built over the source and a Lexer over the reader; the lexer   *)
(* is advanced by hand (Lexer::consume) or turned into its iterator and     *)
(* pulled from (for t in lexer).  An input is made of at most MaxLexLen     *)
(* pieces, each a char, an empty string literal or a keyword.               *)

MaxLexLen == 3

\* the pieces the inputs of the lexer driver are made of
LexPieces ==
    {<<Ch.question>>, <<Ch.lf>>, <<Ch.zero>>, <<Ch.one>>, <<Ch.dot>>, <<Ch.underscore>>,
     <<Ch.quote>>, <<Ch.quote, Ch.quote>>, <<Ch.e_acute>>, <<Ch.open_brace>>, <<Ch.e>>,
     <<Ch.minus>>, KwNull}

RECURSIVE TextsOfPieces(_)
\* the texts made of at most n pieces
TextsOfPieces(n) ==
    IF n = 0 THEN {<<>>}
    ELSE LET shorter == TextsOfPieces(n - 1) IN
         shorter \cup {t \o p : t \in shorter, p \in LexPieces}

LexInputs == TextsOfPieces(MaxLexLen)

InitLexer ==
    /\ mode = "lexer"
    /\ source \in {Encode(t) : t \in LexInputs}
    /\ fail_at \in 0..MaxFailAt
    /\ IdleReaders
    /\ IdleLexer

\* whether the failing read of the source was made between readers before and after
ReadFailedBetween(before, after) ==
    /\ IsBuffered(before)
    /\ before.inner.fail_in # 0
    /\ after.inner.fail_in = 0

\* the state after a call of Lexer::new or Lexer::consume that ended with res
AfterAdvance(op, res, before) ==
    /\ lexer' = IF res.st = "panic" \/ (op = "new" /\ res.st = "err") THEN None
                ELSE Some(res.lexer)
    /\ lex_last' = LexCall(op, res.st, res.err, ReadFailedBetween(before, res.lexer.input_reader))
    /\ failed' = (failed \/ res.st # "ok")

\* let lexer = Lexer::new(reader)?, rd being what R::new(SOURCE) returned
LexNewWith(rd) ==
    IF ~rd.ok
    THEN /\ lexer' = None
         /\ lex_last' = LexCall("new_reader", "err", FromReaderError(rd.err), FALSE)
         /\ failed' = TRUE
    ELSE AfterAdvance("new", Lexer_new(rd.val), rd.val)

\* let reader = R::new(SOURCE)?; let lexer = Lexer::new(reader)?;
LexNew(buffered) ==
    /\ mode = "lexer" /\ lex_last.op = "init"
    /\ LexNewWith(IF buffered THEN BufferedReader_new(NewSource(source, fail_at))
                  ELSE MemoryReader_new(NewSource(source, fail_at)))
    /\ UNCHANGED <<source, fail_at, mode, buf_reader, mem_reader, last, eq_state, iter, items>>

\* lexer.consume()
LexConsume ==
    /\ mode = "lexer" /\ lexer # None
    /\ AfterAdvance("consume", Lexer_consume(Unwrap(lexer)), Unwrap(lexer).input_reader)
    /\ UNCHANGED <<source, fail_at, mode, buf_reader, mem_reader, last, eq_state, iter, items>>

\* lexer.into_iter(), right after Lexer::new
LexIntoIter ==
    /\ mode = "lexer" /\ lexer # None /\ lex_last.op = "new"
    /\ iter' = Some(into_iter(Unwrap(lexer)))
    /\ lexer' = None
    /\ lex_last' = LexCall("into_iter", "ok", NoError, FALSE)
    /\ UNCHANGED <<source, fail_at, mode, buf_reader, mem_reader, last, failed, eq_state, items>>

\* the state after a call of next() that ended with res
AfterNext(res, before) ==
    /\ iter' = IF res.st = "panic" THEN None ELSE Some(res.iter)
    /\ items' = IF res.st = "panic" THEN items ELSE items \o res.item
    /\ lex_last' = LexCall("next",
                           IF res.st = "panic" THEN "panic"
                           ELSE IF res.item = None THEN "none" ELSE "ok",
                           NoError,
                           ReadFailedBetween(before, res.iter.lexer.input_reader))
    /\ failed' = (failed \/ res.st = "panic" \/ res.iter.last_err # None)

\* iter.next()
IterNext ==
    /\ mode = "lexer" /\ iter # None
    /\ AfterNext(IntoIter_next(Unwrap(iter)), Unwrap(iter).lexer.input_reader)
    /\ UNCHANGED <<source, fail_at, mode, buf_reader, mem_reader, last, eq_state, lexer>>

NextLexer ==
    \/ \E buffered \in BOOLEAN : LexNew(buffered)
    \/ LexConsume
    \/ LexIntoIter
    \/ IterNext

SpecLexer == InitLexer /\ [][NextLexer]_vars

----------------------------------------------------------------------------
(* The token driver: the lexer driver over a source that never fails, with  *)
(* inputs that hold one token of each kind and what may follow it.  An      *)
(* input that starts with a space gives Lexer::new a token to end with, so  *)
(* that the token after it is lexed by a Lexer::consume call, which leaves  *)
(* the lexer, and its reader, to look at when it fails.                     *)

MaxStrLen == 3

MaxHexLen == 5

MaxEscTail == 1

MaxKwTail == 2

MaxNumLen == 4

MaxFirstLen == 2

\* the texts of at most n chars of the alphabet
TextsOver(alphabet, n) == UNION {[1..m -> alphabet] : m \in 0..n}

\* the chars after the opening quote of a string
StrChars == {Ch.quote, Ch.backslash, Ch.us, Ch.space, Ch.del, Ch.e_acute, Ch.one}

\* a string literal, terminated or not, after a space
StringInputs == {<<Ch.space, Ch.quote>> \o t : t \in TextsOver(StrChars, MaxStrLen)}

\* the chars after a \u: hex digits, a char that is none, the quote
HexChars == {Ch.one, Ch.upper_f, Ch.l, Ch.quote}

\* a string literal that begins with \u, after a space
UnicodeInputs ==
    {<<Ch.space, Ch.quote, Ch.backslash, Ch.u>> \o t : t \in TextsOver(HexChars, MaxHexLen)}

\* the chars after a backslash: the eight short escapes, u, and others
EscChars ==
    {Ch.quote, Ch.backslash, Ch.slash, Ch.b, Ch.f, Ch.n, Ch.r, Ch.t, Ch.u,
     Ch.a, Ch.one, Ch.space, Ch.us, Ch.upper_a, Ch.e_acute}

\* a string literal that begins with a backslash and a char, after a space
EscapeInputs ==
    {<<Ch.space, Ch.quote, Ch.backslash, c>> \o t :
        c \in EscChars, t \in TextsOver({Ch.quote, Ch.one}, MaxEscTail)}

Keywords == {KwNull, KwTrue, KwFalse}

\* a keyword or the start of one, and what follows it, after a space
KeywordInputs ==
    UNION {{<<Ch.space>> \o SubSeq(kw, 1, i) \o t :
                i \in 1..Len(kw), t \in TextsOver({Ch.l, Ch.e, Ch.one, Ch.space}, MaxKwTail)} :
           kw \in Keywords}

\* the chars of numbers
NumChars == {Ch.minus, Ch.plus, Ch.zero, Ch.one, Ch.dot, Ch.e, Ch.upper_e, Ch.underscore}

NumberInputs == TextsOver(NumChars, MaxNumLen)

\* the chars that are a token by themselves
SingleChars ==
    {Ch.space, Ch.tab, Ch.cr, Ch.lf, Ch.comma, Ch.open_brace, Ch.close_brace,
     Ch.open_bracket, Ch.close_bracket, Ch.colon}

\* chars that start no token
OtherChars ==
    {Ch.question, Ch.a, Ch.upper_a, Ch.plus, Ch.dot, Ch.underscore, Ch.slash,
     Ch.backslash, Ch.us, Ch.del, Ch.e_acute}

FirstCharInputs == TextsOver(SingleChars \cup OtherChars, MaxFirstLen)

MaxPad == 61

\* a keyword after so many spaces that it lies across the end of the first
\* BUF_READER_CAPACITY * CHAR_SIZE bytes of the input, or right before it
PaddedKeywordInputs ==
    {[i \in 1..n |-> Ch.space] \o kw \o t :
        n \in (MaxPad - 1)..MaxPad, kw \in Keywords, t \in TextsOver({Ch.l}, 1)}

TokenInputs ==
    StringInputs \cup UnicodeInputs \cup EscapeInputs \cup KeywordInputs
        \cup NumberInputs \cup FirstCharInputs \cup PaddedKeywordInputs

InitTokens ==
    /\ mode = "lexer"
    /\ source \in {Encode(t) : t \in TokenInputs}
    /\ fail_at = 0
    /\ IdleReaders
    /\ IdleLexer

SpecTokens == InitTokens /\ [][NextLexer]_vars

----------------------------------------------------------------------------
(* Claims about the lexer.                                                  *)

\* the lexer the lexer driver holds, by itself or inside its iterator
TheLexer ==
    IF lexer # None THEN lexer
    ELSE IF iter # None THEN Some(Unwrap(iter).lexer)
    ELSE None

\* the token the lexer holds, if any
CurrentToken == IF TheLexer = None THEN None ELSE Lexer_peek(Unwrap(TheLexer))

\* the chars of a text, as a set
CharsOf(text) == {text[i] : i \in 1..Len(text)}

RECURSIVE RawConcat(_, _)
\* the raw texts of the first n items (all tokens), concatenated
RawConcat(its, n) ==
    IF n = 0 THEN <<>> ELSE RawConcat(its, n - 1) \o Unwrap(its[n].token).raw

\* the iteration over the lexer has ended, and neither Lexer::new nor any
\* next() ran into an error
LexedWithoutError ==
    /\ mode = "lexer"
    /\ lex_last.op = "next" /\ lex_last.st = "none"
    /\ ~failed
    /\ \A i \in 1..Len(items) : items[i].ok

\* C4: over a source that never fails, no item follows an Err item in what
\* next() has yielded: after the first error every next() returns None.
C4_NothingAfterErr ==
    (mode = "lexer" /\ fail_at = 0) =>
        \A i \in 1..Len(items) : ~items[i].ok => i = Len(items)

Lexeme(token) ==
    IF token.kind = "Str" THEN <<Ch.quote>> \o token.raw \o <<Ch.quote>> ELSE token.raw

RECURSIVE LexemeConcat(_, _)
\* the lexemes of the first n items (all tokens), concatenated
LexemeConcat(its, n) ==
    IF n = 0 THEN <<>> ELSE LexemeConcat(its, n - 1) \o Lexeme(Unwrap(its[n].token))

RECURSIVE WithoutSeparators(_, _, _, _)
\* text from index i on without its underscores outside string literals;
\* in_str: index i is inside a string literal, escaped: right after a backslash
WithoutSeparators(text, i, in_str, escaped) ==
    IF i > Len(text) THEN <<>>
    ELSE IF in_str
    THEN <<text[i]>> \o WithoutSeparators(text, i + 1,
                                          escaped \/ text[i] # Ch.quote,
                                          ~escaped /\ text[i] = Ch.backslash)
    ELSE IF text[i] = Ch.underscore THEN WithoutSeparators(text, i + 1, FALSE, FALSE)
    ELSE <<text[i]>> \o WithoutSeparators(text, i + 1, text[i] = Ch.quote, FALSE)

LeadingZero ==
    /\ Len(InputChars) >= 2
    /\ InputChars[1] = Ch.zero
    /\ IsDigit(InputChars[2])

\* no advance has failed, and the lexer holds a token that starts at the second
\* char of the input (pos stays where it was when an advance fails, so that
\* after a failure a token's start says nothing)
TokenAtSecondChar ==
    ~failed /\ CurrentToken # None /\ Unwrap(CurrentToken).start.offset = 1

\* C6: an input that begins with 0 and another digit does not lex without
\* error, and the lexer never holds a token for the second digit.
C6_LeadingZeroFails ==
    (mode = "lexer" /\ fail_at = 0 /\ LeadingZero) =>
        /\ ~TokenAtSecondChar
        /\ ~LexedWithoutError

\* C6, amended: over an input that begins with 0 and another digit, Lexer::new
\* ends with the Num token `0`, which ends before the second digit; a token
\* that starts at the second digit is a Num that begins with it; no error is
\* UnexpectedCharacter of that digit; and the input `0d` alone lexes without
\* error as the two Num tokens `0` and `d`.
C6_ZeroThenDigitAreTwoTokens ==
    (mode = "lexer" /\ fail_at = 0 /\ LeadingZero) =>
        /\ lex_last.op = "new" =>
              /\ lex_last.st = "ok"
              /\ CurrentToken = Some(Token("Num", <<Ch.zero>>,
                                           [line |-> 1, column |-> 1, offset |-> 0],
                                           [line |-> 1, column |-> 2, offset |-> 1]))
        /\ TokenAtSecondChar =>
              /\ Unwrap(CurrentToken).kind = "Num"
              /\ Unwrap(CurrentToken).raw[1] = InputChars[2]
        /\ lex_last.err # Unexpected(InputChars[2])
        /\ \A i \in 1..Len(items) : items[i].err # Unexpected(InputChars[2])
        /\ (Len(InputChars) = 2 /\ lex_last.op = "next" /\ lex_last.st = "none") =>
              /\ LexedWithoutError
              /\ Len(items) = 2
              /\ Unwrap(items[1].token).raw = <<Ch.zero>>
              /\ Unwrap(items[2].token).raw = <<InputChars[2]>>
              /\ Unwrap(items[2].token).kind = "Num"

\* C6, its case: the input is a 0 and another digit, and the iteration over
\* it has ended.
C6_Witness ==
    /\ mode = "lexer" /\ fail_at = 0 /\ LeadingZero
    /\ Len(InputChars) = 2
    /\ lex_last.op = "next" /\ lex_last.st = "none"
    /\ Len(items) = 2

\* the chars the reader of the lexer has been advanced past
ConsumedChars == SubSeq(InputChars, 1, Consumed(Unwrap(TheLexer).input_reader))

\* how many of the chars of text are c
CountOf(text, c) == Cardinality({i \in 1..Len(text) : text[i] = c})

\* the index of the last c in text, 0 when there is none
LastIndexOf(text, c) ==
    IF c \notin CharsOf(text) THEN 0
    ELSE CHOOSE i \in 1..Len(text) :
            text[i] = c /\ \A j \in (i + 1)..Len(text) : text[j] # c

\* C7: after every advance of the lexer that succeeded (Lexer::new or
\* Lexer::consume, over a source that never fails, no advance having failed
\* before), pos.offset is the number of chars consumed from the reader,
\* pos.line is 1 plus the number of line feeds among them, and pos.column is 1
\* plus the number of chars consumed since the last line feed.
C7_PositionCountsChars ==
    (mode = "lexer" /\ fail_at = 0 /\ ~failed /\ lexer # None
                    /\ lex_last.op \in {"new", "consume"} /\ lex_last.st = "ok") =>
        /\ Unwrap(lexer).pos.offset = Len(ConsumedChars)
        /\ Unwrap(lexer).pos.line = 1 + CountOf(ConsumedChars, Ch.lf)
        /\ Unwrap(lexer).pos.column =
              1 + Len(ConsumedChars) - LastIndexOf(ConsumedChars, Ch.lf)

\* C10: no call of the lexer panics, and a Lexer::new or Lexer::consume during
\* which a read of the source failed returns the lexer error that wraps the
\* reader's I/O error; a next() during which it failed keeps that error to
\* yield it.
C10_ReaderErrorIsReturned ==
    mode = "lexer" =>
        /\ lex_last.st # "panic"
        /\ (lex_last.rd_err /\ lex_last.op \in {"new", "consume"}) =>
              (lex_last.st = "err" /\ lex_last.err = FromReaderError(IoError))
        /\ (lex_last.rd_err /\ lex_last.op = "next") =>
              Unwrap(iter).last_err = Some(FromReaderError(IoError))

----------------------------------------------------------------------------
(* Claims about the tokens.  Over an input that starts with a space, the    *)
(* iterator that has yielded one item has made the advance that lexes what  *)
(* follows the space: last_err is its error, the lexer holds its token and  *)
(* the reader is where it left it.                                          *)

\* the iterator has yielded the first token and made the second advance
SecondAdvanced ==
    /\ mode = "lexer" /\ fail_at = 0
    /\ iter # None /\ lex_last.op = "next"
    /\ Len(items) = 1 /\ items[1].ok
    /\ Len(InputChars) >= 2 /\ InputChars[1] = Ch.space

\* the error of the second advance, if it failed
SecondErr == Unwrap(iter).last_err

\* the token of the second advance, if it made one
SecondToken == Unwrap(iter).lexer.current_token

\* the number of chars of the input consumed when the second advance ended
SecondConsumed == Consumed(Unwrap(iter).lexer.input_reader)

\* the chars that make a short escape after a backslash
ShortEscapes == {Ch.quote, Ch.backslash, Ch.slash, Ch.b, Ch.f, Ch.n, Ch.r, Ch.t}

RECURSIVE ScanString(_, _)
\* How the string literal whose chars start at index i of text ends: "closed"
\* by a quote, "bad" at a char that cannot be there, or at the end of the
\* input: "eof" where a char of the string or the quote could be, "eof_escape"
\* right after a backslash, "eof_hex" after a \u and fewer than four chars,
\* all hex digits.
ScanString(text, i) ==
    IF i > Len(text) THEN "eof"
    ELSE IF text[i] = Ch.quote THEN "closed"
    ELSE IF is_ascii_control(text[i]) THEN "bad"
    ELSE IF text[i] # Ch.backslash THEN ScanString(text, i + 1)
    ELSE IF i + 1 > Len(text) THEN "eof_escape"
    ELSE IF text[i + 1] \in ShortEscapes THEN ScanString(text, i + 2)
    ELSE IF text[i + 1] # Ch.u THEN "bad"
    ELSE IF \E j \in (i + 2)..Min(i + 5, Len(text)) : ~is_ascii_hexdigit(text[j]) THEN "bad"
    ELSE IF i + 5 > Len(text) THEN "eof_hex"
    ELSE ScanString(text, i + 6)

\* the input is a space and a string literal, and how the literal ends
StringEnds(how) ==
    /\ InputChars[2] = Ch.quote
    /\ ScanString(InputChars, 3) = how

StringBeginsPlain ==
    /\ Len(InputChars) >= 3
    /\ InputChars[2] = Ch.quote
    /\ InputChars[3] \notin {Ch.quote, Ch.backslash}

\* C12: the first char of a string, when it is neither a quote nor a
\* backslash, makes the advance fail with Unexpected(c) exactly when its code
\* point is below 0x20, and otherwise is the first char of the raw of the Str
\* token the advance makes, if it makes one.
C12_OnlyBelow0x20Rejected ==
    (SecondAdvanced /\ StringBeginsPlain) =>
        /\ SecondErr = Some(Unexpected(InputChars[3])) <=> InputChars[3] < Ch.space
        /\ (InputChars[3] >= Ch.space /\ SecondErr = None) =>
              /\ SecondToken # None
              /\ Unwrap(SecondToken).kind = "Str"
              /\ Unwrap(SecondToken).raw[1] = InputChars[3]

\* the input is a space and a string that begins with \u
StringBeginsUnicode ==
    /\ Len(InputChars) >= 4
    /\ SubSeq(InputChars, 1, 4) = <<Ch.space, Ch.quote, Ch.backslash, Ch.u>>

RECURSIVE LeadingHex(_, _, _)
\* the length of the run of hex digits of text that starts at index i, up to n
LeadingHex(text, i, n) ==
    IF n = 0 \/ i > Len(text) \/ ~is_ascii_hexdigit(text[i]) THEN 0
    ELSE 1 + LeadingHex(text, i + 1, n - 1)

\* C13: over a string that begins with \u, when four hex digits follow the
\* advance does not fail with Expected(Digit(Hex)) and the raw of the token it
\* makes begins with \u and the four digits; otherwise it fails with
\* Expected(Digit(Hex)), having consumed the hex digits before the first char
\* that is none and one more char (as far as the input goes).
C13_UnicodeEscape ==
    (SecondAdvanced /\ StringBeginsUnicode) =>
        IF LeadingHex(InputChars, 5, 4) = 4
        THEN /\ SecondErr # Some(Expected("Hex", <<>>))
             /\ SecondErr = None =>
                   /\ SecondToken # None
                   /\ Len(Unwrap(SecondToken).raw) >= 6
                   /\ SubSeq(Unwrap(SecondToken).raw, 1, 6) = SubSeq(InputChars, 3, 8)
        ELSE /\ SecondErr = Some(Expected("Hex", <<>>))
             /\ SecondConsumed = Min(4 + LeadingHex(InputChars, 5, 4) + 1, Len(InputChars))

\* The input begins with spaces, and the iterator has yielded a token for each
\* of them and nothing else: its last advance lexed what follows the spaces.
PaddingLexed ==
    /\ mode = "lexer" /\ fail_at = 0
    /\ iter # None /\ lex_last.op = "next"
    /\ Len(items) >= 1 /\ Len(InputChars) > Len(items)
    /\ \A i \in 1..Len(items) : InputChars[i] = Ch.space /\ items[i].ok

\* the number of spaces the input begins with that have been lexed
PadLen == Len(items)

\* what follows the spaces begins like a keyword
KeywordBegins == InputChars[PadLen + 1] \in {Ch.n, Ch.t, Ch.f}

\* the keyword that begins with the char after the spaces
TheKeyword == CHOOSE kw \in Keywords : kw[1] = InputChars[PadLen + 1]

\* the chars after the first char of the keyword are its tail
KeywordTailFollows ==
    /\ Len(InputChars) >= PadLen + Len(TheKeyword)
    /\ SubSeq(InputChars, PadLen + 1, PadLen + Len(TheKeyword)) = TheKeyword

\* the token of TheKeyword where the input has it
KeywordToken ==
    Token(IF TheKeyword = KwNull THEN "Null" ELSE "Bool", TheKeyword,
          [line |-> 1, column |-> PadLen + 1, offset |-> PadLen],
          [line |-> 1, column |-> PadLen + 1 + Len(TheKeyword),
           offset |-> PadLen + Len(TheKeyword)])

\* the advance made the token of TheKeyword and consumed the keyword, or it
\* failed with Expected(Keyword(kw)) and consumed the first char only,
\* according to whether the tail of the keyword follows
KeywordOrExpectedKeyword ==
    IF KeywordTailFollows
    THEN /\ SecondErr = None
         /\ SecondToken = Some(KeywordToken)
         /\ SecondConsumed = PadLen + Len(TheKeyword)
    ELSE /\ SecondErr = Some(Expected("Keyword", TheKeyword))
         /\ SecondToken = None
         /\ SecondConsumed = PadLen + 1

\* C14: after a first char n, t or f the advance makes the token Null or Bool
\* with the keyword as raw, having consumed the keyword and no more, exactly
\* when the chars that follow are the tail of the keyword, whatever comes
\* after them; otherwise it fails with Expected(Keyword(kw)) and has consumed
\* the first char only.
C14_KeywordOrExpectedKeyword ==
    (PaddingLexed /\ KeywordBegins) => KeywordOrExpectedKeyword

\* C14 for the readers that show the tail: the same, when the reader is a
\* MemoryReader, or a BufferedReader and the keyword ends within the first
\* BUF_READER_CAPACITY * CHAR_SIZE bytes of the input.
C14_KeywordWithinWindow ==
    (/\ PaddingLexed /\ KeywordBegins
     /\ \/ ~IsBuffered(Unwrap(iter).lexer.input_reader)
        \/ PadLen + Len(TheKeyword) <= BUF_READER_CAPACITY * CHAR_SIZE)
        => KeywordOrExpectedKeyword

\* C14, its case: a keyword that a letter follows has been lexed.
C14_Witness ==
    /\ PaddingLexed /\ KeywordBegins /\ KeywordTailFollows
    /\ Len(InputChars) > PadLen + Len(TheKeyword)
    /\ InputChars[PadLen + Len(TheKeyword) + 1] \in {Ch.l, Ch.e}
    /\ SecondToken = Some(KeywordToken)

\* Lexer::new has been called over a source that never fails
FirstAdvanced == mode = "lexer" /\ fail_at = 0 /\ lex_last.op = "new"

\* the input begins like a number
NumberBegins ==
    /\ Len(InputChars) >= 1
    /\ (IsDigit(InputChars[1]) \/ InputChars[1] = Ch.minus)

\* InputAt(n) is a digit
DigitAt(n) == InputAt(n) # None /\ IsDigit(Unwrap(InputAt(n)))

RECURSIVE DigitRunEnd(_)
\* the offset where the longest run of digits and underscores from offset n ends
DigitRunEnd(n) ==
    IF DigitAt(n) \/ InputAt(n) = Some(Ch.underscore) THEN DigitRunEnd(n + 1) ELSE n

\* the run of digits and underscores from offset n has no digit
NoDigitFrom(n) == \A k \in n..(DigitRunEnd(n) - 1) : ~DigitAt(k)

\* the offset of the first digit of the number, after its sign
IntegerStart == IF InputAt(0) = Some(Ch.minus) THEN 1 ELSE 0

\* the offset where the integer part of the number ends
IntegerStop ==
    IF InputAt(IntegerStart) = Some(Ch.zero) THEN IntegerStart + 1
    ELSE DigitRunEnd(IntegerStart + 1)

\* the offset where the fraction of the number ends
FractionStop ==
    IF InputAt(IntegerStop) = Some(Ch.dot) THEN DigitRunEnd(IntegerStop + 1)
    ELSE IntegerStop

\* the offset of the first digit of the exponent, after the e and its sign
ExponentStart ==
    IF InputAt(FractionStop + 1) \in {Some(Ch.plus), Some(Ch.minus)}
    THEN FractionStop + 2 ELSE FractionStop + 1

\* the leading minus is not immediately followed by a digit
MinusWithoutDigit == InputAt(0) = Some(Ch.minus) /\ ~DigitAt(1)

\* the dot after the integer part is not followed by a digit
DotWithoutDigit ==
    /\ ~MinusWithoutDigit
    /\ InputAt(IntegerStop) = Some(Ch.dot)
    /\ NoDigitFrom(IntegerStop + 1)

\* the exponent marker, with its optional sign, is not followed by a digit
ExponentWithoutDigit ==
    /\ ~MinusWithoutDigit /\ ~DotWithoutDigit
    /\ InputAt(FractionStop) \in {Some(Ch.e), Some(Ch.upper_e)}
    /\ NoDigitFrom(ExponentStart)

\* C15: over an input that begins like a number, Lexer::new fails with
\* Expected(Digit(Dec)) exactly when the leading minus is not immediately
\* followed by a digit, the dot is not followed by a digit, or the e or E, with
\* its optional sign, is not followed by a digit (the underscores that
\* separate digits being skipped after a dot and in an exponent); otherwise it
\* succeeds with a Num token.
C15_ExpectedDigitExactlyWhen ==
    (FirstAdvanced /\ NumberBegins) =>
        IF MinusWithoutDigit \/ DotWithoutDigit \/ ExponentWithoutDigit
        THEN lex_last.st = "err" /\ lex_last.err = Expected("Dec", <<>>)
        ELSE /\ lex_last.st = "ok"
             /\ CurrentToken # None /\ Unwrap(CurrentToken).kind = "Num"

\* C15, its case: a number whose signed exponent has no digit has failed.
C15_Witness ==
    /\ FirstAdvanced /\ NumberBegins /\ ExponentWithoutDigit
    /\ InputAt(FractionStop + 1) = Some(Ch.plus)
    /\ lex_last.st = "err" /\ lex_last.err = Expected("Dec", <<>>)

\* the offset where the number ends
NumberStop ==
    IF InputAt(FractionStop) \in {Some(Ch.e), Some(Ch.upper_e)}
    THEN DigitRunEnd(ExponentStart) ELSE FractionStop

\* the whole input is a number of the JSON grammar:
\* -? (0 | [1-9][0-9]*) (. [0-9]+)? ([eE] [+-]? [0-9]+)?
IsJsonNumber ==
    /\ NumberBegins
    /\ Ch.underscore \notin CharsOf(InputChars)
    /\ ~(MinusWithoutDigit \/ DotWithoutDigit \/ ExponentWithoutDigit)
    /\ NumberStop = Len(InputChars)

\* the Num token whose raw is the whole input
WholeInputNum ==
    Token("Num", InputChars, [line |-> 1, column |-> 1, offset |-> 0],
          [line |-> 1, column |-> 1 + Len(InputChars), offset |-> Len(InputChars)])

\* C16: over an input that is a number of the JSON grammar, without
\* underscores, Lexer::new succeeds with the Num token whose raw is the whole
\* input, and the iteration yields that token and nothing else: no error, no
\* second token.
C16_JsonNumberIsOneNum ==
    (mode = "lexer" /\ fail_at = 0 /\ IsJsonNumber) =>
        /\ lex_last.st # "err" /\ lex_last.st # "panic"
        /\ lex_last.op = "new" => CurrentToken = Some(WholeInputNum)
        /\ iter # None =>
              /\ Unwrap(iter).last_err = None
              /\ items \in {<<>>, <<OkItem(WholeInputNum)>>}
              /\ lex_last.st = "none" => items = <<OkItem(WholeInputNum)>>

\* C16, its case: a number with a signed exponent has been iterated over to
\* the end.
C16_Witness ==
    /\ mode = "lexer" /\ fail_at = 0 /\ IsJsonNumber
    /\ InputAt(FractionStop + 1) = Some(Ch.plus)
    /\ lex_last.op = "next" /\ lex_last.st = "none"
    /\ items = <<OkItem(WholeInputNum)>>

\* the kind of token each of the ten chars is to give
KindOfChar ==
    [c \in SingleChars |->
        IF c \in {Ch.space, Ch.tab, Ch.cr, Ch.lf} THEN "Whitespace"
        ELSE IF c = Ch.comma THEN "Comma"
        ELSE IF c = Ch.open_brace THEN "OpenBrace"
        ELSE IF c = Ch.close_brace THEN "CloseBrace"
        ELSE IF c = Ch.open_bracket THEN "OpenBracket"
        ELSE IF c = Ch.close_bracket THEN "CloseBracket"
        ELSE "Colon"]

\* the first n chars of the text are among the ten
SingleCharRun(text, n) == n <= Len(text) /\ \A j \in 1..n : text[j] \in SingleChars

\* the first n chars of the input are among the ten
SingleCharsUpTo(n) == SingleCharRun(InputChars, n)

\* the item is the token of the char c, the i-th of the input
IsTokenOfChar(item, c, i) ==
    /\ item.ok
    /\ Unwrap(item.token).kind = KindOfChar[c]
    /\ Unwrap(item.token).raw = <<c>>
    /\ Unwrap(item.token).start.offset = i - 1
    /\ Unwrap(item.token).end.offset = i

\* the last item the iterator yielded is the token of the char of the text at
\* the same index, when the text is a run of the ten chars up to there
LastItemOfRun(text) ==
    (Len(items) >= 1 /\ SingleCharRun(text, Len(items))) =>
        IsTokenOfChar(items[Len(items)], text[Len(items)], Len(items))

\* the first char of the input begins no token
FirstCharIsOther ==
    /\ Len(InputChars) >= 1
    /\ InputChars[1] \notin SingleChars \cup {Ch.n, Ch.t, Ch.f, Ch.minus, Ch.quote}
    /\ ~IsDigit(InputChars[1])

\* C17: over a source that never fails, Lexer::new over an input whose first
\* char is one of space, tab, CR, LF, `,`, `{`, `}`, `[`, `]`, `:` consumes
\* that char only and makes the token of its kind with the char as raw; every
\* item the iterator yields within a leading run of such chars is, when it is
\* yielded, the token of the char at its index, of the kind of that char and
\* with that char as raw, and there are as many items as chars when the whole
\* input is such a run; Lexer::new over an input whose first
\* char c is none of these, not n, t or f, not a digit or `-`, and not `"`
\* fails with Unexpected(c).
C17_SingleCharTokens ==
    (mode = "lexer" /\ fail_at = 0) =>
        /\ (lex_last.op = "new" /\ Len(InputChars) >= 1 /\ SingleCharsUpTo(1)) =>
              /\ lex_last.st = "ok"
              /\ CurrentToken # None
              /\ Unwrap(CurrentToken).kind = KindOfChar[InputChars[1]]
              /\ Unwrap(CurrentToken).raw = <<InputChars[1]>>
              /\ Unwrap(CurrentToken).start = [line |-> 1, column |-> 1, offset |-> 0]
              /\ Unwrap(CurrentToken).end.offset = 1
              /\ Consumed(Unwrap(TheLexer).input_reader) = 1
        /\ iter # None =>
              /\ LastItemOfRun(InputChars)
              /\ (lex_last.st = "none" /\ SingleCharsUpTo(Len(InputChars))) =>
                    Len(items) = Len(InputChars)
        /\ (lex_last.op = "new" /\ FirstCharIsOther) =>
              /\ lex_last.st = "err"
              /\ lex_last.err = Unexpected(InputChars[1])

\* C17, its case: two whitespace chars have been iterated over to the end,
\* and two tokens were yielded.
C17_Witness ==
    /\ mode = "lexer" /\ fail_at = 0 /\ iter # None
    /\ InputChars = <<Ch.cr, Ch.lf>>
    /\ lex_last.op = "next" /\ lex_last.st = "none"
    /\ Len(items) = 2 /\ items[1].ok /\ items[2].ok

\* the input is a space and a string that begins with a backslash and
\* another char
StringBeginsEscape ==
    /\ Len(InputChars) >= 4
    /\ SubSeq(InputChars, 1, 3) = <<Ch.space, Ch.quote, Ch.backslash>>

\* C18: over a string that begins with a backslash and a char c, when c is one
\* of `"`, `\`, `/`, b, f, n, r, t the advance does not fail at c (when it
\* fails with Expected(EscapedChar) it has consumed more than the four chars up
\* to c: a later escape failed), the raw of the token it makes begins with the
\* backslash and c, and is the backslash and c when a quote follows; when c is
\* none of these and not u, the advance fails with Expected(EscapedChar),
\* having consumed the four chars up to c.
C18_ShortEscapes ==
    (SecondAdvanced /\ StringBeginsEscape) =>
        /\ InputChars[4] \in ShortEscapes =>
              /\ SecondErr = Some(Expected("EscapedChar", <<>>)) => SecondConsumed > 4
              /\ SecondErr = None =>
                    /\ SecondToken # None
                    /\ Unwrap(SecondToken).kind = "Str"
                    /\ Len(Unwrap(SecondToken).raw) >= 2
                    /\ SubSeq(Unwrap(SecondToken).raw, 1, 2) = <<Ch.backslash, InputChars[4]>>
              /\ InputAt(4) = Some(Ch.quote) =>
                    /\ SecondErr = None
                    /\ SecondToken # None
                    /\ Unwrap(SecondToken).raw = <<Ch.backslash, InputChars[4]>>
        /\ InputChars[4] \notin ShortEscapes \cup {Ch.u} =>
              /\ SecondErr = Some(Expected("EscapedChar", <<>>))
              /\ SecondConsumed = 4

\* C18, its case: the string of the escape \/ has been lexed.
C18_Witness ==
    /\ SecondAdvanced /\ StringBeginsEscape
    /\ InputChars = <<Ch.space, Ch.quote, Ch.backslash, Ch.slash, Ch.quote>>
    /\ SecondErr = None
    /\ SecondToken # None
    /\ Unwrap(SecondToken).raw = <<Ch.backslash, Ch.slash>>

C20_OverconsumeExactlyAboveCapacity ==
    [][\A k \in ConsumeKs :
          BufConsume(k) =>
              /\ (~last'.ok /\ last'.err.repr = "Buffer") <=> k > BUF_READER_CAPACITY
              /\ k > BUF_READER_CAPACITY =>
                    /\ last'.err = overconsume_buffer(k)
                    /\ buf_reader' = buf_reader]_vars

\* C20, its case: after chars were consumed, a consume(k) with k above the
\* capacity has failed.
C20_Witness ==
    /\ mode = "peek" /\ buf_reader # None
    /\ Consumed(Unwrap(buf_reader)) > 0
    /\ last.op = "consume" /\ ~last.ok
    /\ last.err = overconsume_buffer(BUF_READER_CAPACITY + 1)

\* the pos field of the MemoryReader of the driver
MemPos == Unwrap(mem_reader).pos

\* C21: a consume(k) call on a MemoryReader, for any k, returns no error and
\* does not panic; it sets pos to the smaller of pos + k and the length; pos
\* does not decrease and is at most the length.
C21_MemConsumeClamps ==
    [][\A k \in MemConsumeKs, checked \in BOOLEAN :
          MemConsumeBuilt(k, checked) =>
              /\ last'.ok /\ mem_reader' # None
              /\ Unwrap(mem_reader').pos =
                    (IF k = usize_MAX THEN Len(InputChars) ELSE Min(MemPos + k, Len(InputChars)))
              /\ Unwrap(mem_reader').pos >= MemPos
              /\ Unwrap(mem_reader').pos <= Len(InputChars)]_vars

\* C21 for the k that pos + k does not overflow with: the same.
C21_MemConsumeClampsWithoutOverflow ==
    [][\A k \in MemConsumeKs, checked \in BOOLEAN :
          (MemConsumeBuilt(k, checked) /\ ~AddOverflows(MemPos, k)) =>
              /\ last'.ok /\ mem_reader' # None
              /\ Unwrap(mem_reader').pos =
                    (IF k = usize_MAX THEN Len(InputChars) ELSE Min(MemPos + k, Len(InputChars)))
              /\ Unwrap(mem_reader').pos >= MemPos
              /\ Unwrap(mem_reader').pos <= Len(InputChars)]_vars

\* C21, its case: a consume has stopped at the end of an input of more than
\* BUF_READER_CAPACITY chars.
C21_Witness ==
    /\ mode = "mem" /\ mem_reader # None
    /\ last.op = "consume" /\ last.ok
    /\ Len(InputChars) > BUF_READER_CAPACITY
    /\ MemPos = Len(InputChars)

\* what Lexer::new returns over a BufferedReader (buffered) or a MemoryReader
FirstAdvanceOver(buffered) ==
    Lexer_new((IF buffered
               THEN BufferedReader_new(NewSource(source, fail_at))
               ELSE MemoryReader_new(NewSource(source, fail_at))).val)

\* what Lexer::new returned, over the reader of the kind the iterator holds
FirstAdvance == FirstAdvanceOver(IsBuffered(Unwrap(iter).lexer.input_reader))

RECURSIVE AdvanceOutcomes(_, _)
\* What the advances of the lexer lx return, one after the other, the first
\* one having returned adv: a token for an advance that made one, an error for
\* one that failed, up to the advance that makes no token (or panics); n
\* bounds their number.
AdvanceOutcomes(adv, n) ==
    IF n = 0 \/ adv.st = "panic" THEN <<>>
    ELSE IF adv.st = "err"
    THEN <<ErrItem(adv.err)>> \o AdvanceOutcomes(Lexer_consume(adv.lexer), n - 1)
    ELSE IF adv.lexer.current_token = None THEN <<>>
    ELSE <<OkItem(Unwrap(adv.lexer.current_token))>>
             \o AdvanceOutcomes(Lexer_consume(adv.lexer), n - 1)

\* the token of Lexer::new and the outcomes of the advances after it
ExpectedItems == AdvanceOutcomes(FirstAdvance, Len(InputChars) + 2)

\* xs is the beginning of ys
IsPrefix(xs, ys) == Len(xs) <= Len(ys) /\ xs = SubSeq(ys, 1, Len(xs))

\* C22: over a source that never fails, the items the iterator has yielded
\* are, in their order, the token of Lexer::new and what the advances made
\* since returned, one item for each advance that made a token and one for
\* each that failed; when the iterator has ended, no outcome is missing.
C22_ItemsAreTheOutcomes ==
    (mode = "lexer" /\ fail_at = 0 /\ iter # None /\ lex_last.op = "next") =>
        /\ IsPrefix(items, ExpectedItems)
        /\ lex_last.st = "none" => items = ExpectedItems

\* C22, its case: the iterator has ended after it yielded a token, an error
\* and a token after the error.
C22_Witness ==
    /\ mode = "lexer" /\ fail_at = 0 /\ iter # None
    /\ lex_last.op = "next" /\ lex_last.st = "none"
    /\ Len(items) >= 3
    /\ items[1].ok /\ ~items[2].ok /\ items[3].ok

\* the lexer lx holds no token, and its reader has consumed no less than the
\* reader rd had, and more when rd was not at the end of the input
EmptyAndNotRewound(lx, rd) ==
    /\ Lexer_peek(lx) = None
    /\ Consumed(lx.input_reader) >= Consumed(rd)
    /\ (~has_reached_eof(rd) /\ fail_at = 0) => Consumed(lx.input_reader) > Consumed(rd)

\* C23: when Lexer::consume returns an error, called by hand or by the
\* iterator, the lexer holds no token afterwards and its reader has not gone
\* back: it has consumed what it had consumed before the call and, over a
\* source that never fails, at least the char the advance began with.
C23_ErrorLeavesNoToken ==
    [][/\ (LexConsume /\ lex_last'.st = "err") =>
              EmptyAndNotRewound(Unwrap(lexer'), Unwrap(lexer).input_reader)
       /\ (IterNext /\ iter' # None /\ Unwrap(iter').last_err # None) =>
              EmptyAndNotRewound(Unwrap(iter').lexer, Unwrap(iter).lexer.input_reader)]_vars

\* C23, its case: a Lexer::consume called by hand on a lexer that held a token
\* has failed after it consumed more than one char.
C23_Witness ==
    /\ mode = "lexer" /\ fail_at = 0 /\ lexer # None
    /\ lex_last.op = "consume" /\ lex_last.st = "err"
    /\ Lexer_peek(Unwrap(lexer)) = None
    /\ Consumed(Unwrap(lexer).input_reader) >= 3

\* the iterator has ended, and its items are what Lexer::new and the advances
\* over a reader of the other kind return
SameItemsOverOtherReader ==
    (iter # None /\ lex_last.op = "next" /\ lex_last.st = "none") =>
        items = AdvanceOutcomes(FirstAdvanceOver(~IsBuffered(Unwrap(iter).lexer.input_reader)),
                                Len(InputChars) + 2)

\* Lexer::new has failed, and it fails with the same error over a reader of
\* the other kind
SameErrorOverOtherReader ==
    (lex_last.op = "new" /\ lex_last.st = "err") =>
        \A buffered \in BOOLEAN :
            /\ FirstAdvanceOver(buffered).st = "err"
            /\ FirstAdvanceOver(buffered).err = lex_last.err

\* C24: over a source that never fails, the tokens and errors of a Lexer over
\* a BufferedReader are those of a Lexer over a MemoryReader, in the same
\* order.
C24_SameItemsOverBothReaders ==
    (mode = "lexer" /\ fail_at = 0) =>
        (SameItemsOverOtherReader /\ SameErrorOverOtherReader)

\* C24 for the inputs that fit the bytes a BufferedReader holds: the same,
\* when the input is of at most BUF_READER_CAPACITY * CHAR_SIZE bytes.
C24_SameItemsWithinBuffer ==
    (mode = "lexer" /\ fail_at = 0 /\ Len(source) <= BUF_READER_CAPACITY * CHAR_SIZE) =>
        (SameItemsOverOtherReader /\ SameErrorOverOtherReader)

\* C24, its case: the iterator over a BufferedReader has ended after it
\* yielded a keyword and an error.
C24_Witness ==
    /\ mode = "lexer" /\ fail_at = 0 /\ iter # None
    /\ IsBuffered(Unwrap(iter).lexer.input_reader)
    /\ lex_last.op = "next" /\ lex_last.st = "none"
    /\ \E i \in 1..Len(items) : items[i].ok /\ Unwrap(items[i].token).kind = "Bool"
    /\ \E i \in 1..Len(items) : ~items[i].ok

\* the chars of the number the input begins with, the underscores of its
\* digit runs among them
NumberText == SubSeq(InputChars, 1, NumberStop)

\* C25: over an input that begins with a number which does not fail,
\* Lexer::new makes one Num token; it has consumed the number with the
\* underscores of its digit runs (after a leading 1-9, after the dot, in the
\* exponent), and the raw of the token is the number without them.
C25_UnderscoresDropped ==
    (/\ FirstAdvanced /\ NumberBegins
     /\ ~(MinusWithoutDigit \/ DotWithoutDigit \/ ExponentWithoutDigit)) =>
        /\ lex_last.st = "ok"
        /\ CurrentToken # None
        /\ Unwrap(CurrentToken).kind = "Num"
        /\ Unwrap(CurrentToken).raw = WithoutSeparators(NumberText, 1, FALSE, FALSE)
        /\ Consumed(Unwrap(TheLexer).input_reader) = NumberStop

\* C25, its case: a number with a fraction and an underscore in a digit run
\* has been lexed.
C25_Witness ==
    /\ FirstAdvanced /\ NumberBegins /\ lex_last.st = "ok"
    /\ Ch.underscore \in CharsOf(NumberText)
    /\ Ch.dot \in CharsOf(NumberText)
    /\ Ch.underscore \notin CharsOf(Unwrap(CurrentToken).raw)

\* C26: over a source that never fails, Lexer::new over the empty input
\* succeeds and the lexer holds no token; a Lexer::consume called at the end of
\* the input, by hand or by the iterator, succeeds and leaves the lexer without
\* a token; a next() over the empty input returns None and no item is yielded.
C26_EndOfInputIsSuccess ==
    [][(mode = "lexer" /\ fail_at = 0) =>
          /\ ((\E buffered \in BOOLEAN : LexNew(buffered)) /\ source = <<>>) =>
                /\ lex_last'.st = "ok"
                /\ lexer' # None /\ Lexer_peek(Unwrap(lexer')) = None
          /\ (LexConsume /\ has_reached_eof(Unwrap(lexer).input_reader)) =>
                /\ lex_last'.st = "ok"
                /\ lexer' # None /\ Lexer_peek(Unwrap(lexer')) = None
          /\ (IterNext /\ has_reached_eof(Unwrap(iter).lexer.input_reader)) =>
                /\ iter' # None
                /\ Unwrap(iter').last_err = None
                /\ Lexer_peek(Unwrap(iter').lexer) = None
          /\ (IterNext /\ source = <<>>) =>
                /\ lex_last'.st = "none"
                /\ items' = <<>>]_vars

\* C26, its case: a next() over the empty input has returned None.
C26_Witness ==
    /\ mode = "lexer" /\ fail_at = 0 /\ source = <<>>
    /\ iter # None /\ lex_last.op = "next" /\ lex_last.st = "none"
    /\ items = <<>>

\* What a consume(k) that moved the byte cursor of the BufferedReader r to
\* `moved` and returned res has made of r, which is now r2.  With the cursor
\* at the end of the bytes held, the source was read: the n bytes it had next
\* are at the front of the buffer, cap is n and pos is 0.  Otherwise the
\* source, the buffer and cap are as they were, pos is `moved`, and the window
\* is decoded from there.
ReadsOnlyAtEnd(r, r2, moved, n, ok) ==
    IF moved >= r.cap
    THEN /\ r2.inner.data = SubSeq(r.inner.data, n + 1, Len(r.inner.data))
         /\ SubSeq(r2.buf, 1, n) = SubSeq(r.inner.data, 1, n)
         /\ r2.pos = 0 /\ r2.cap = n
    ELSE /\ r2.inner = r.inner /\ r2.buf = r.buf /\ r2.cap = r.cap
         /\ r2.pos = moved
         /\ ok => r2.chars = WindowOf(Utf8Chars(r.buf, moved + 1, r.cap, BUF_READER_CAPACITY))

\* C27: over a source that never fails, a consume(k) of a BufferedReader, k
\* within the capacity, reads from the source exactly when it leaves the byte
\* cursor at the end of the bytes held (pos >= cap); then pos is 0 and cap is
\* the number of bytes read; any other consume leaves the source, the buffer
\* and cap as they were and decodes the window from pos.
C27_ReadsOnlyAtEndOfBuffer ==
    [][\A k \in ConsumeKs :
          (BufConsume(k) /\ k <= BUF_READER_CAPACITY) =>
              ReadsOnlyAtEnd(Unwrap(buf_reader), Unwrap(buf_reader'),
                             Min(Unwrap(buf_reader).pos
                                   + SumLenUtf8(Unwrap(buf_reader).chars, k),
                                 Unwrap(buf_reader).cap),
                             Min(Len(Unwrap(buf_reader).buf),
                                 Len(Unwrap(buf_reader).inner.data)),
                             last'.ok)]_vars

\* C27, its case: a consume has read the second chunk of an input of more
\* bytes than the buffer holds.
C27_Witness ==
    /\ mode = "peek" /\ buf_reader # None
    /\ last.op = "consume" /\ last.ok
    /\ Len(source) > BUF_READER_CAPACITY * CHAR_SIZE
    /\ Unwrap(buf_reader).pos = 0 /\ Unwrap(buf_reader).cap > 0
    /\ Unwrap(buf_reader).cap < BUF_READER_CAPACITY * CHAR_SIZE

\* the error of the lexer that wraps the reader's buffer-overconsumption error
IsBufferError(e) == e.cause # None /\ Unwrap(e.cause).repr = "Buffer"

\* C28: tokenizing never fails with a buffer-overconsumption error: neither
\* Lexer::new nor Lexer::consume returns one, and the iterator neither yields
\* nor keeps one, the reader being a BufferedReader or a MemoryReader.
C28_NoBufferError ==
    /\ ~IsBufferError(lex_last.err)
    /\ (iter # None /\ Unwrap(iter).last_err # None) =>
           ~IsBufferError(Unwrap(Unwrap(iter).last_err))
    /\ (items # <<>> /\ ~items[Len(items)].ok) => ~IsBufferError(items[Len(items)].err)

\* C28, its case: over a BufferedReader, a Lexer::consume has made the largest
\* request of the lexer, consume(4), after the three hex digits of a \u escape
\* that lacks the fourth, and has failed for the escape only.
C28_Witness ==
    /\ mode = "lexer" /\ lexer # None
    /\ IsBuffered(Unwrap(lexer).input_reader)
    /\ lex_last.op = "consume" /\ lex_last.st = "err"
    /\ lex_last.err = Expected("Hex", <<>>)
    /\ Consumed(Unwrap(lexer).input_reader) >= 8

\* the indexes of the tokens among the first n items
TokensBefore(n) == {i \in 1..n : items[i].ok}

\* where the token at index n of the items has to start: at the end of the
\* token produced last before it, or where Lexer::new starts
StartOfItem(n) ==
    IF TokensBefore(n - 1) = {}
    THEN [line |-> 1, column |-> 1, offset |-> 0]
    ELSE Unwrap(items[CHOOSE i \in TokensBefore(n - 1) :
                          \A j \in TokensBefore(n - 1) : j <= i].token).end

\* C29: the first token an iteration produces starts at line 1, column 1,
\* offset 0, and every later one starts where the token produced last before
\* it ends, whatever errors were produced between the two.
C29_TokensAreContiguous ==
    (items # <<>> /\ items[Len(items)].ok) =>
        Unwrap(items[Len(items)].token).start = StartOfItem(Len(items))

\* C29, its case: a token, an error, and a token that starts where the first
\* ends although the reader is further on.
C29_Witness ==
    /\ mode = "lexer" /\ iter # None /\ Len(items) = 3
    /\ items[1].ok /\ ~items[2].ok /\ items[3].ok
    /\ Unwrap(items[3].token).start = Unwrap(items[1].token).end
    /\ Unwrap(items[3].token).start.offset = 1
    /\ Consumed(Unwrap(iter).lexer.input_reader) >= 3

\* C31: a BufferedReader has 0 <= pos <= cap <= the length of its byte
\* buffer, which is 64, after its construction and after every consume,
\* failed ones included, so that buf[pos..cap] is a slice of the buffer.
C31_CursorWithinBuffer ==
    buf_reader # None =>
        /\ 0 <= Unwrap(buf_reader).pos
        /\ Unwrap(buf_reader).pos <= Unwrap(buf_reader).cap
        /\ Unwrap(buf_reader).cap <= Len(Unwrap(buf_reader).buf)
        /\ Len(Unwrap(buf_reader).buf) = BUF_READER_CAPACITY * CHAR_SIZE

\* C31, its case: a consume has moved the cursor to the end of a full buffer
\* and the read it then made has failed, which leaves pos = cap = 64.
C31_Witness ==
    /\ mode = "readers" /\ buf_reader # None
    /\ last.op = "consume" /\ ~last.ok /\ last.err = IoError
    /\ Unwrap(buf_reader).pos = BUF_READER_CAPACITY * CHAR_SIZE
    /\ Unwrap(buf_reader).cap = BUF_READER_CAPACITY * CHAR_SIZE

----------------------------------------------------------------------------
(* The iteration driver: `for t in lexer`, the loop of try_main, which      *)
(* calls next() for as long as it may.  Its inputs are those of the lexer   *)
(* driver and inputs of more bytes than two fills of the BufferedReader     *)
(* take: spaces, the number `1.` at the end of the first 64 bytes or up to  *)
(* MaxShift bytes before it, a space, and sixteen chars of four bytes.      *)

MaxShift == 2

StraddlingInputs ==
    {[i \in 1..(BUF_READER_CAPACITY * CHAR_SIZE - 2 - shift) |-> Ch.space]
        \o <<Ch.one, Ch.dot, Ch.space>>
        \o [i \in 1..BUF_READER_CAPACITY |-> CharOfWidth(CHAR_SIZE, i)] :
     shift \in 0..MaxShift}

IterInputs == LexInputs \cup StraddlingInputs

InitIter ==
    /\ mode = "lexer"
    /\ source \in {Encode(t) : t \in IterInputs}
    /\ fail_at \in 0..MaxFailAt
    /\ IdleReaders
    /\ IdleLexer

NextIter ==
    \/ \E buffered \in BOOLEAN : LexNew(buffered)
    \/ LexIntoIter
    \/ IterNext

\* there is nothing to iterate: the reader or the lexer could not be made
NoIteration == lex_last.op \in {"new_reader", "new"} /\ lex_last.st # "ok"

\* next() has returned None
IterationEnded == lex_last.op = "next" /\ lex_last.st = "none"

\* next() has panicked
IterationPanicked == lex_last.op = "next" /\ lex_last.st = "panic"

\* Lexer::new or next() has a call to make that changes the state: nothing
\* was made yet, or the loop got no None yet.  It is ENABLED of the two, as a
\* predicate of the state.
LoopGoesOn ==
    \/ lex_last.op = "init"
    \/ iter # None /\ ~IterationEnded

\* a step of NextIter, told by what none of them changes
LoopStep == mode' = mode

\* Weak fairness of the calls of try_main: into_iter is called on the lexer
\* made, and while Lexer::new or next() has a call to make, one is made.
LoopFairness ==
    /\ WF_vars(LexIntoIter)
    /\ ([]<>~LoopGoesOn \/ []<><<LoopStep>>_vars)

\* the loop goes on: a call that may be made is made
SpecIter == InitIter /\ [][NextIter]_vars /\ LoopFairness

\* C30: over a source that never fails, iterating a Lexer ends: after
\* finitely many calls next() returns None, and it returns None ever after.
C30_IterationEnds ==
    <>[](fail_at # 0 \/ NoIteration \/ IterationEnded)

\* C30, without the panics: every iteration either comes to return None for
\* good or panics, whether reads of the source fail or not.
C30_IterationEndsOrPanics ==
    <>[](NoIteration \/ IterationEnded \/ IterationPanicked)

\* C30, its case: over a BufferedReader that has filled its buffer three
\* times from a source that never failed, next() has returned None after the
\* items of more than 64 chars.
C30_Witness ==
    /\ mode = "lexer" /\ fail_at = 0 /\ iter # None
    /\ IsBuffered(Unwrap(iter).lexer.input_reader)
    /\ IterationEnded
    /\ Len(source) >= 2 * BUF_READER_CAPACITY * CHAR_SIZE
    /\ Len(items) > BUF_READER_CAPACITY * CHAR_SIZE

----------------------------------------------------------------------------
(* The whole model: one of the drivers.                                    *)

Init == InitReaders \/ InitPeek \/ InitMem \/ InitEq \/ InitLexer \/ InitTokens \/ InitIter

Next == NextPeek \/ NextMem \/ NextEq \/ NextLexer

Spec == Init /\ [][Next]_vars

====
